---- MODULE Spec2Model ----
(***************************************************************************)
(* Model of the downhill delivery game: the App component (session state,  *)
(* cooked-fish inventory, the three grill slots and their 50 ms cook       *)
(* timer) and the GameCanvas component (the per-frame simulation).         *)
(*                                                                         *)
(* React state is modelled by two copies.  The variables gameState,        *)
(* fishInventory, grillSlots, highScore and hud hold the value of each     *)
(* useState cell with every queued update applied in queue order.  The     *)
(* variable view holds the values of the last committed render, which are  *)
(* the values event handlers close over.  Updates queued from timer and    *)
(* animation-frame callbacks are committed by a later Render step; updates *)
(* queued from a click are committed before the next event is dispatched,  *)
(* so the click actions end with their own commit.                         *)
(*                                                                         *)
(* Numbers: grill progress is counted in tenths (0.8 is 8).                *)
(***************************************************************************)
EXTENDS Integers, Sequences, FiniteSets

VARIABLES
    gameState,        \* useState gameState: "MENU", "PLAYING", "GAME_OVER"
    fishInventory,    \* useState fishInventory
    grillSlots,       \* useState grillSlots: sequence of 3 slot records
    highScore,        \* useState highScore
    hud,              \* useState score / status / avalancheDist
    view,             \* values of the last committed render (handler closures)
    cookTimer,        \* the cook setInterval is set
    loopOn,           \* a requestAnimationFrame(gameLoop) is pending
    fishInventoryRef, \* GameCanvas fishInventoryRef.current
    isHolding,        \* GameCanvas isHoldingRef.current
    player,           \* GameCanvas playerRef.current
    terrain,          \* GameCanvas terrainRef.current
    obstacles,        \* GameCanvas obstaclesRef.current
    decorations,      \* GameCanvas decorationsRef.current
    powerUps,         \* GameCanvas powerUpsRef.current
    particles,        \* GameCanvas particlesRef.current (remaining life of each)
    avalancheX,       \* GameCanvas avalancheXRef.current
    elapsed,          \* Date.now() - startTimeRef.current, in ms
    frameCount,       \* GameCanvas frameCountRef.current
    budget,           \* frame ticks still to be taken (bounded)
    frames,           \* frame ticks of the current run
    stalls,           \* long pauses of the frame loop so far (bounded)
    presses,          \* presses so far (bounded)
    pending,          \* callbacks since the last commit that queued an update (bounded)
    nCook,            \* number of cook-timer ticks so far (bounded)
    runs,             \* number of runs started so far (bounded)
    gameOverCalls,    \* onGameOver deliveries during the current run
    last              \* the last operation and the state it started from

appVars == <<gameState, fishInventory, grillSlots, highScore, hud>>
worldVars == <<player, terrain, obstacles, decorations, powerUps, particles, avalancheX>>
canvasVars == <<isHolding, player, terrain, obstacles, decorations, powerUps, particles,
                avalancheX, elapsed, frameCount, budget, frames, stalls, presses>>
vars == <<gameState, fishInventory, grillSlots, highScore, hud, view,
          cookTimer, loopOn, fishInventoryRef, isHolding, player, terrain, obstacles,
          decorations, powerUps, particles, avalancheX, elapsed, frameCount, budget, frames,
          stalls, presses, pending, nCook, runs, gameOverCalls, last>>

(***************************************************************************)
(* Bounds of the model.                                                    *)
(***************************************************************************)
MaxCookTicks == 3
MaxRuns == 2
MaxFinalScore == 1
MaxPending == 3
MaxOverCalls == 2

(***************************************************************************)
(* Program constants.                                                      *)
(***************************************************************************)
NumSlots == 3
Capacity == 3
CookStep == 8
PerfectAbove == 600
BurntAbove == 1000

SlotIds == <<"1", "2", "3">>

EmptySlot(i) == [id |-> SlotIds[i], progress |-> 0, state |-> "raw", isCooking |-> FALSE]

InitialSlots == [i \in 1..NumSlots |-> EmptySlot(i)]

(* variants of the cook step: burnt at the threshold itself; burnt kept *)
CookSlotBurntAtThreshold(slot) ==
    IF ~slot.isCooking THEN slot
    ELSE IF slot.progress + CookStep >= BurntAbove
         THEN [slot EXCEPT !.isCooking = FALSE, !.progress = 0, !.state = "raw"]
         ELSE [slot EXCEPT !.progress = @ + CookStep,
                           !.state = IF slot.progress + CookStep > PerfectAbove
                                     THEN "perfect" ELSE @]

CookSlotKeepsBurnt(slot) ==
    IF ~slot.isCooking THEN slot
    ELSE [slot EXCEPT !.progress = @ + CookStep,
                      !.state = IF slot.progress + CookStep > BurntAbove THEN "burnt"
                                ELSE IF slot.progress + CookStep > PerfectAbove THEN "perfect"
                                ELSE @]

(* a variant that turns perfect at the threshold itself *)
CookSlotPerfectAtThreshold(slot) ==
    IF ~slot.isCooking THEN slot
    ELSE LET newProgress == slot.progress + CookStep
             newState == IF newProgress > BurntAbove THEN "burnt"
                         ELSE IF newProgress >= PerfectAbove THEN "perfect"
                         ELSE slot.state
         IN  IF newState = "burnt"
             THEN [slot EXCEPT !.isCooking = FALSE, !.progress = 0, !.state = "raw"]
             ELSE [slot EXCEPT !.progress = newProgress, !.state = newState]

(***************************************************************************)
(* The cook timer's per-slot step.                                         *)
(***************************************************************************)
CookSlot(slot) ==
    IF ~slot.isCooking THEN slot
    ELSE LET newProgress == slot.progress + CookStep
             newState == IF newProgress > BurntAbove THEN "burnt"
                         ELSE IF newProgress > PerfectAbove THEN "perfect"
                         ELSE slot.state
         IN  IF newState = "burnt"
             THEN [slot EXCEPT !.isCooking = FALSE, !.progress = 0, !.state = "raw"]
             ELSE [slot EXCEPT !.progress = newProgress, !.state = newState]

CookAll(prev) == [i \in 1..NumSlots |-> CookSlot(prev[i])]

(***************************************************************************)
(* prev.findIndex(s => !s.isCooking): the first idle slot, 0 when none     *)
(* (slots are numbered from 1 here, -1 in the source is 0).                *)
(***************************************************************************)
(* a variant that always answers with the first slot *)
FindIndexAlwaysFirst(prev) == 1

FindIndex(prev) ==
    IF \A i \in 1..NumSlots : prev[i].isCooking THEN 0
    ELSE CHOOSE i \in 1..NumSlots :
            /\ ~prev[i].isCooking
            /\ \A j \in 1..(i - 1) : prev[j].isCooking

PlaceFish(prev) ==
    LET idx == FindIndex(prev)
    IN  IF idx # 0
        THEN [prev EXCEPT ![idx] = [@ EXCEPT !.isCooking = TRUE, !.progress = 0, !.state = "raw"]]
        ELSE prev

ClearSlot(prev, index) ==
    [prev EXCEPT ![index] = [@ EXCEPT !.isCooking = FALSE, !.progress = 0, !.state = "raw"]]

(* a variant that takes two fish *)
DecrementByTwo(pv) == IF pv - 2 < 0 THEN 0 ELSE pv - 2

(* a variant without the floor at 0 *)
DecrementWithoutFloor(pv) == pv - 1

Decrement(pv) == IF pv - 1 > 0 THEN pv - 1 ELSE 0

(***************************************************************************)
(* GameCanvas.  Lengths and speeds are in thousandths of a pixel (per      *)
(* frame), angles in millionths of a radian, times in milliseconds.        *)
(***************************************************************************)
GRAVITY == 600
FALL_GRAVITY == 300
JUMP_FORCE == -15000
ROTATION_SPEED == 240000
BASE_SPEED == 8000
MAX_SPEED == 20000
BOOST_SPEED == 25000
FLIGHT_SPEED == 28000
TERRAIN_SEGMENT_WIDTH == 40000
SLOPE_DROP == 15000
GAME_WIDTH == 720000
PI == 3141593
PERFECT_THRESHOLD == 523599
CRASH_THRESHOLD == 1221730
CRASH_SPEED == 2000
FLIGHT_FRAMES == 80
DELIVERY_SCORE == 500
INVINCIBLE_FRAMES == 180
PARTICLE_LIFE == 50
NO_GROUND == 100000000
START_AVALANCHE == -800000
AVALANCHE_LEAD == 100000
AVALANCHE_CATCH == 30000

(***************************************************************************)
(* Bounds of the frame loop: the frames of a run, the samples of a run at  *)
(* which the random draws may spawn something, the long pauses of the loop *)
(* (a hidden tab, a suspended device) and the frames at which they and the *)
(* presses may come.                                                       *)
(***************************************************************************)
MaxFrames == 110
SpawnSamples == 1
MaxStalls == 1
StallBefore == 2
MaxPresses == 1
PressFrom == 100
FrameMs == 16
StallSet == {10000000, 100000000}
JitterSet == {0}
TreeOffsets == {0}

Abs(n) == IF n < 0 THEN -n ELSE n
Max(a, b) == IF a > b THEN a ELSE b

(* Math.sin(nextX * 0.01) * 15 for nextX = 40 * k pixels, k = 36, 37, ... *)
SinTable == <<
    14485, 11824, 7296, 1616, -4319, -9572, -13314, -14954, -14233, -11265,
    -6518, -743, 5150, 10229, 13694, 14997, 13932, 10667, 5719, -133,
    -5963, -10852, -14028, -14989, -13584, -10034, -4900, 1008, 6757, 11438,
    14314, 14930, 13189, 9366, 4064, -1880, -7527, -11985, -14552, -14820,
    -12750, -8666, -3214, 2746, 8271, 12491, 14739, 14660, 12266, 7936,
    2353, -3602, -8988, -12955, -14877, -14450, -11742, -7180, -1484, 4446,
    9673, 13374, 14963, 14190, 11177, 6399, 610, -5274, -10326, -13748,
    -14999, -13882, -10574, -5596, 266, 6085, 10944, 14075, 14984, 13527,
    9935, 4774, -1141, -6875, -11524, -14353, -14917, -13125, -9262, -3936,
    2012, 7641, 12065, 14583, 14799, 12679, 8557, 3084, -2876, -8382,
    -12564, -14763, -14631, -12190, -7823, -2222, 3730, 9094, 13021, 14893,
    14414, 11659, 7063, 1352, -4572, -9775, -13434, -14972, -14147, -11088,
    -6278, -478, 5398, 10422, 13800, 15000, 13831, 10479, 5472, -398,
    -6206, -11034, -14120, -14977, -13469, -9835, -4648, 1273, 6993, 11608,
    14391, 14902, 13061, 9157, 3807, -2143, -7755, -12143, -14614, -14777,
    -12608, -8448, -2954, 3006, 8492, 12636, 14786, 14602, 12112, 7710,
    2090, -3859, -9199, -13087, -14908, -14376, -11575, -6945, -1220, 4698,
    9875, 13492, 14980, 14102, 10998, 6157, 345, -5522, -10517, -13852,
    -15000, -13779, -10384, -5349, 531, 6327, 11124, 14164, 14969, 13410,
    9734, 4521, -1405, -7110, -11692, -14428, -14887, -12995, -9051, -3679 >>

SinNoise(nextX) == SinTable[(nextX \div TERRAIN_SEGMENT_WIDTH) - 35]

(* Math.atan2(dy, 40) for dy = -10, -9, ..., 40 pixels; interpolated between. *)
AtanTable == <<
    -244979, -221314, -197396, -173246, -148890, -124355, -99669, -74860, -49958, -24995,
    0, 24995, 49958, 74860, 99669, 124355, 148890, 173246, 197396, 221314,
    244979, 268366, 291457, 314232, 336675, 358771, 380506, 401871, 422854, 443448,
    463648, 483447, 502843, 521834, 540420, 558599, 576375, 593750, 610726, 627308,
    643501, 659310, 674741, 689800, 704494, 718830, 732815, 746457, 759763, 772741,
    785398 >>

Atan2(dy, dx) ==
    LET px == dy \div 1000
        r == dy % 1000
        lo == AtanTable[px + 11]
        hi == AtanTable[px + 12]
    IN  lo + ((hi - lo) * r) \div 1000

(* a % m of the source: the sign of the result is the sign of a *)
Rem(a, m) == IF a >= 0 THEN a % m ELSE -((-a) % m)

InitialPlayer ==
    [x |-> 100000, y |-> 200000, vx |-> BASE_SPEED, vy |-> 0, rotation |-> 0,
     isGrounded |-> FALSE, isDead |-> FALSE, score |-> 0, boostTimer |-> 0,
     backflipCount |-> 0, totalBackflips |-> 0, invincibleTimer |-> 0,
     flightTimer |-> 0, fishInventory |-> 0]

(* the player of the useRef initializer, before the first initGame *)
MountPlayer == [InitialPlayer EXCEPT !.x = 200000, !.y = 0]

(* initGame's terrain: 36 samples 40 apart, each SLOPE_DROP (plus jitter) lower *)
InitialTerrain ==
    [k \in 1..((2 * GAME_WIDTH) \div TERRAIN_SEGMENT_WIDTH) |->
        [x |-> (k - 1) * TERRAIN_SEGMENT_WIDTH, y |-> 200000 + k * SLOPE_DROP]]

(***************************************************************************)
(* updateTerrain(playerX).  deco and game are the outcomes of the random   *)
(* draws of the spawning logic, jitter and off those of the noise and of   *)
(* the tree offset.  The result holds the four collections.                *)
(***************************************************************************)
DecoKinds == {"none", "cabin", "tree_tall", "tree_short"}
GameKinds == {"none", "rock", "fish", "sunglasses"}

(* a variant that cleans up to one segment ahead of the player *)
CleanupPastPlayer(playerX) == playerX + TERRAIN_SEGMENT_WIDTH

(* a variant that cleans up ahead of the player *)
CleanupAhead(playerX) == playerX + GAME_WIDTH

(* the x below which the first element of a list is dropped *)
CleanupX(playerX) == playerX - GAME_WIDTH

updateTerrain(t, obs, decs, pus, playerX, deco, game, jitter, off) ==
    LET lastPoint == t[Len(t)]
        extend == lastPoint.x < playerX + GAME_WIDTH * 2
        nextX == lastPoint.x + TERRAIN_SEGMENT_WIDTH
        noise == SinNoise(nextX) + jitter
        nextY == lastPoint.y + SLOPE_DROP + noise
        t1 == IF extend THEN Append(t, [x |-> nextX, y |-> nextY]) ELSE t
        decs1 == IF extend /\ deco = "cabin"
                 THEN Append(decs, [x |-> nextX + 20000, y |-> nextY + 10000, type |-> "cabin",
                                    width |-> 80000, height |-> 80000, delivered |-> FALSE])
                 ELSE IF extend /\ deco \in {"tree_tall", "tree_short"}
                 THEN Append(decs, [x |-> nextX + off, y |-> nextY + 10000, type |-> deco,
                                    width |-> 40000, height |-> 100000, delivered |-> FALSE])
                 ELSE decs
        obs1 == IF extend /\ game = "rock"
                THEN Append(obs, [x |-> nextX, y |-> nextY, type |-> "rock_small",
                                  width |-> 40000, height |-> 30000, passed |-> FALSE])
                ELSE obs
        pus1 == IF extend /\ game \in {"fish", "sunglasses"}
                THEN Append(pus, [x |-> nextX, y |-> nextY - 60000, type |-> game,
                                  collected |-> FALSE])
                ELSE pus
        cleanupX == CleanupX(playerX)
    IN  [terrain |-> IF t1[1].x < cleanupX THEN Tail(t1) ELSE t1,
         obstacles |-> IF Len(obs1) > 0 /\ obs1[1].x < cleanupX THEN Tail(obs1) ELSE obs1,
         decorations |-> IF Len(decs1) > 0 /\ decs1[1].x < cleanupX THEN Tail(decs1) ELSE decs1,
         powerUps |-> IF Len(pus1) > 0 /\ pus1[1].x < cleanupX THEN Tail(pus1) ELSE pus1,
         extended |-> extend]

(***************************************************************************)
(* getGroundY(x): height and slope angle of the segment that holds x; the  *)
(* sentinel when no segment does.                                          *)
(***************************************************************************)
getGroundY(t, x) ==
    LET hits == {i \in 1..(Len(t) - 1) : x >= t[i].x /\ x < t[i + 1].x}
    IN  IF hits = {} THEN [y |-> NO_GROUND, angle |-> 0]
        ELSE LET i == CHOOSE j \in hits : \A k \in hits : j <= k
                 p1 == t[i]
                 p2 == t[i + 1]
             IN  [y |-> p1.y + ((p2.y - p1.y) * (x - p1.x)) \div (p2.x - p1.x),
                  angle |-> Atan2(p2.y - p1.y, p2.x - p1.x)]

(***************************************************************************)
(* updatePhysics, in the order of the source.                              *)
(***************************************************************************)
Countdown(n) == IF n > 0 THEN n - 1 ELSE n

TargetSpeed(p) ==
    IF p.invincibleTimer > 0 THEN (MAX_SPEED * 12) \div 10
    ELSE IF p.flightTimer > 0 THEN FLIGHT_SPEED
    ELSE IF p.boostTimer > 0 THEN BOOST_SPEED
    ELSE MAX_SPEED

(* inventory sync, timers, speed, position, gravity *)
Integrate(p0, ref) ==
    LET p1 == [p0 EXCEPT !.fishInventory = ref,
                         !.invincibleTimer = Countdown(@),
                         !.flightTimer = Countdown(@),
                         !.boostTimer = Countdown(@)]
        p2 == [p1 EXCEPT !.vx = IF @ < TargetSpeed(p1) THEN @ + 100 ELSE (@ * 99) \div 100]
        p3 == [p2 EXCEPT !.x = @ + p2.vx, !.y = @ + p2.vy]
    IN  [p3 EXCEPT !.vy = IF p3.flightTimer <= 0
                          THEN (IF @ < 0 THEN @ + GRAVITY ELSE @ + FALL_GRAVITY)
                          ELSE (IF @ + (GRAVITY * 3) \div 10 > 2000 THEN 2000
                                ELSE @ + (GRAVITY * 3) \div 10)]

NormRot(rotation) ==
    LET r == Rem(rotation, 2 * PI)
    IN  IF r > PI THEN r - 2 * PI ELSE IF r < -PI THEN r + 2 * PI ELSE r

AngleDiff(rotation, groundAngle) == Abs(NormRot(rotation) - groundAngle)

(* a variant that crashes at the threshold already *)
IsCrashFromThreshold(p, groundAngle) ==
    AngleDiff(p.rotation, groundAngle) >= CRASH_THRESHOLD /\ p.invincibleTimer <= 0

IsCrash(p, groundAngle) ==
    AngleDiff(p.rotation, groundAngle) > CRASH_THRESHOLD /\ p.invincibleTimer <= 0

(* the landing logic of a new ground contact *)
Landing(p, groundAngle) ==
    IF IsCrash(p, groundAngle)
    THEN [p EXCEPT !.vx = CRASH_SPEED, !.rotation = groundAngle]
    ELSE IF p.backflipCount > 0
         THEN IF AngleDiff(p.rotation, groundAngle) < PERFECT_THRESHOLD
              THEN [p EXCEPT !.boostTimer = 60 + p.backflipCount * 30,
                             !.score = @ + p.backflipCount * 300]
              ELSE [p EXCEPT !.score = @ + p.backflipCount * 150]
         ELSE p

LandingParticles(p, groundAngle) ==
    IF IsCrash(p, groundAngle) THEN 15
    ELSE IF p.backflipCount > 0 /\ AngleDiff(p.rotation, groundAngle) < PERFECT_THRESHOLD
         THEN 20 ELSE 0

(* floor collision: the player after it, whether updatePhysics returned in *)
(* it (flight clamp), and the particles it created                         *)
(* a variant that turns the player near the ground as well *)
SpinsAtAnyHeight(p, holding, heightFromGround) == holding /\ p.flightTimer <= 0

(* the airborne player is turned in this tick *)
Spins(p, holding, heightFromGround) ==
    holding /\ p.flightTimer <= 0 /\ heightFromGround > 50000

FloorCollision(p, t, holding) ==
    LET g == getGroundY(t, p.x)
        collisionThreshold == IF p.flightTimer > 0 THEN g.y - 150000 ELSE g.y - 15000
    IN  IF p.y >= collisionThreshold /\ p.vy >= 0
        THEN IF p.flightTimer > 0
             THEN [p |-> [p EXCEPT !.y = collisionThreshold, !.vy = 0],
                   returned |-> TRUE, created |-> 0]
             ELSE LET q == IF ~p.isGrounded THEN Landing(p, g.angle) ELSE p
                  IN  [p |-> [q EXCEPT !.y = collisionThreshold, !.vy = 0,
                                       !.isGrounded = TRUE, !.backflipCount = 0,
                                       !.rotation = g.angle],
                       returned |-> FALSE,
                       created |-> IF ~p.isGrounded THEN LandingParticles(p, g.angle) ELSE 0]
        ELSE LET spin == Spins(p, holding, g.y - p.y)
                 rot == p.rotation - ROTATION_SPEED
                 rotations == (Abs(rot) + PI \div 2) \div (2 * PI)
             IN  [p |-> IF spin
                        THEN [p EXCEPT !.isGrounded = FALSE, !.rotation = rot,
                                       !.backflipCount = IF rotations > @ THEN rotations ELSE @]
                        ELSE [p EXCEPT !.isGrounded = FALSE],
                  returned |-> FALSE, created |-> 0]

(* obstacle collision *)
(* a variant that hits a rock again *)
HitsObstacleAgain(p, t, obs) ==
    /\ p.x > obs.x - 7000 /\ p.x < obs.x + 7000
    /\ p.y > getGroundY(t, obs.x).y - obs.height

HitsObstacle(p, t, obs) ==
    /\ ~obs.passed
    /\ p.x > obs.x - 7000 /\ p.x < obs.x + 7000
    /\ p.y > getGroundY(t, obs.x).y - obs.height

(* a variant that looks at the flight timer only *)
ObstaclesActiveInShades(p) == p.flightTimer <= 0

ObstaclesActive(p) == p.invincibleTimer <= 0 /\ p.flightTimer <= 0

(* cabin delivery *)
InDeliveryWindow(p, dec) ==
    /\ p.x > dec.x - 100000 /\ p.x < dec.x + 100000
    /\ Abs(p.y - dec.y) < 100000

(* a variant that does not look at the inventory *)
HasFishAlways(p) == TRUE

HasFish(p) == p.fishInventory > 0

(* a variant that delivers to a cabin again *)
DeliversAgain(p, dec) ==
    /\ dec.type = "cabin"
    /\ InDeliveryWindow(p, dec)
    /\ HasFish(p)

Delivers(p, dec) ==
    /\ dec.type = "cabin" /\ ~dec.delivered
    /\ InDeliveryWindow(p, dec)
    /\ HasFish(p)

(* power-up pickup: Math.hypot(dx, dy) < 50 *)
Reaches(p, pu) ==
    LET dx == Abs(p.x - pu.x)
        dy == Abs(p.y - pu.y)
    IN  /\ ~pu.collected
        /\ dx < 50000 /\ dy < 50000
        /\ (dx \div 10) * (dx \div 10) + (dy \div 10) * (dy \div 10) < 5000 * 5000

(* a variant that never accelerates *)
AvalancheSpeedFlat(ms) == 9000

(* the avalanche's target speed after ms milliseconds of the run *)
AvalancheSpeed(ms) ==
    IF ms < 30000 THEN 9000 + (150 * ms) \div 1000
    ELSE IF ms < 90000 THEN 13500 + (200 * (ms - 30000)) \div 1000
    ELSE IF ms < 120000 THEN 25500 + (75 * (ms - 90000)) \div 1000
    ELSE IF ms < 180000 THEN 27750 + (30 * (ms - 120000)) \div 1000
    ELSE 29550 + (10 * (ms - 180000)) \div 1000

(* a variant that invincibility does not slow down *)
AdvanceAtFullSpeed(av, p, ms) ==
    LET a == av + AvalancheSpeed(ms)
    IN  IF a > p.x + AVALANCHE_LEAD THEN p.x + AVALANCHE_LEAD ELSE a

(* a variant without the clamp to the player *)
AdvanceWithoutClamp(av, p, ms) ==
    av + AvalancheSpeed(ms) - (IF p.invincibleTimer > 0 THEN 2000 ELSE 0)

AdvanceAvalanche(av, p, ms) ==
    LET a == av + AvalancheSpeed(ms) - (IF p.invincibleTimer > 0 THEN 2000 ELSE 0)
    IN  IF a > p.x + AVALANCHE_LEAD THEN p.x + AVALANCHE_LEAD ELSE a

(* a variant that looks at the flight timer first *)
StatusFlightFirst(p) ==
    IF p.flightTimer > 0 THEN "DELIVERY FLIGHT!"
    ELSE IF p.invincibleTimer > 0 THEN "INVINCIBLE!"
    ELSE IF p.boostTimer > 0 THEN "SPEED BOOST!"
    ELSE "none"

Status(p) ==
    IF p.invincibleTimer > 0 THEN "INVINCIBLE!"
    ELSE IF p.flightTimer > 0 THEN "DELIVERY FLIGHT!"
    ELSE IF p.boostTimer > 0 THEN "SPEED BOOST!"
    ELSE "none"

(***************************************************************************)
(* updatePhysics: the refs after the step and the callbacks it made        *)
(* (delivers and collects are numbers of calls, over and update hold the   *)
(* arguments of the onGameOver and onScoreUpdate calls, if any).  The      *)
(* sections of the function follow each other on a record w of the refs    *)
(* and the calls made so far.                                              *)
(***************************************************************************)
(* a variant in which a rock kills *)
ObstacleSectionFatal(w, t) ==
    LET Hit(o) == ObstaclesActive(w.player) /\ HitsObstacle(w.player, t, o)
        nHit == Cardinality({i \in 1..Len(w.obstacles) : Hit(w.obstacles[i])})
    IN  [w EXCEPT !.obstacles = [i \in 1..Len(@) |->
                                    IF Hit(@[i]) THEN [@[i] EXCEPT !.passed = TRUE] ELSE @[i]],
                  !.player = IF nHit > 0 THEN [@ EXCEPT !.vx = CRASH_SPEED, !.isDead = TRUE]
                             ELSE @,
                  !.created = @ + 10 * nHit]

ObstacleSection(w, t) ==
    LET Hit(o) == ObstaclesActive(w.player) /\ HitsObstacle(w.player, t, o)
        nHit == Cardinality({i \in 1..Len(w.obstacles) : Hit(w.obstacles[i])})
    IN  [w EXCEPT !.obstacles = [i \in 1..Len(@) |->
                                    IF Hit(@[i]) THEN [@[i] EXCEPT !.passed = TRUE] ELSE @[i]],
                  !.player = IF nHit > 0 THEN [@ EXCEPT !.vx = CRASH_SPEED] ELSE @,
                  !.created = @ + 10 * nHit]

CabinSection(w) ==
    LET Del(d) == Delivers(w.player, d)
        nDel == Cardinality({i \in 1..Len(w.decorations) : Del(w.decorations[i])})
    IN  [w EXCEPT !.decorations = [i \in 1..Len(@) |->
                                      IF Del(@[i]) THEN [@[i] EXCEPT !.delivered = TRUE]
                                      ELSE @[i]],
                  !.player = IF nDel > 0
                             THEN [@ EXCEPT !.flightTimer = FLIGHT_FRAMES,
                                            !.score = @ + DELIVERY_SCORE * nDel]
                             ELSE @,
                  !.created = @ + 15 * nDel,
                  !.delivers = nDel]

(* a variant that leaves a fish where it is while the inventory is full *)
PowerUpSectionSkipsWhenFull(w) ==
    LET Got(u) == Reaches(w.player, u)
                     /\ ~(u.type = "fish" /\ w.player.fishInventory >= Capacity)
        Fish(u) == Got(u) /\ u.type = "fish"
        Shades(u) == Got(u) /\ u.type # "fish"
        nFish == Cardinality({i \in 1..Len(w.powerUps) : Fish(w.powerUps[i])})
        nShades == Cardinality({i \in 1..Len(w.powerUps) : Shades(w.powerUps[i])})
    IN  [w EXCEPT !.powerUps = [i \in 1..Len(@) |->
                                   IF Got(@[i]) THEN [@[i] EXCEPT !.collected = TRUE]
                                   ELSE @[i]],
                  !.player = IF nShades > 0
                             THEN [@ EXCEPT !.invincibleTimer = INVINCIBLE_FRAMES,
                                            !.vy = -10000]
                             ELSE @,
                  !.created = @ + 10 * nFish + 20 * nShades,
                  !.collects = nFish]

PowerUpSection(w) ==
    LET Got(u) == Reaches(w.player, u)
        Fish(u) == Reaches(w.player, u) /\ u.type = "fish"
        Shades(u) == Reaches(w.player, u) /\ u.type # "fish"
        nFish == Cardinality({i \in 1..Len(w.powerUps) : Fish(w.powerUps[i])})
        nShades == Cardinality({i \in 1..Len(w.powerUps) : Shades(w.powerUps[i])})
    IN  [w EXCEPT !.powerUps = [i \in 1..Len(@) |->
                                   IF Got(@[i]) THEN [@[i] EXCEPT !.collected = TRUE]
                                   ELSE @[i]],
                  !.player = IF nShades > 0
                             THEN [@ EXCEPT !.invincibleTimer = INVINCIBLE_FRAMES,
                                            !.vy = -10000]
                             ELSE @,
                  !.created = @ + 10 * nFish + 20 * nShades,
                  !.collects = nFish]

AvalancheSection(w, ms) ==
    LET av1 == AdvanceAvalanche(w.avalancheX, w.player, ms)
        caught == av1 > w.player.x - AVALANCHE_CATCH
        score == w.player.x \div 10000
    IN  [w EXCEPT !.avalancheX = av1,
                  !.player = IF caught THEN [@ EXCEPT !.isDead = TRUE] ELSE @,
                  !.over = IF caught THEN <<score>> ELSE <<>>,
                  !.update = <<[score |-> score, status |-> Status(w.player),
                                dist |-> Max(0, (w.player.x - av1) \div 10000)]>>]

AfterFloor(fc, t, obs, decs, pus, av, ms) ==
    IF fc.returned
    THEN [player |-> fc.p, obstacles |-> obs, decorations |-> decs, powerUps |-> pus,
          avalancheX |-> av, created |-> 0, delivers |-> 0, collects |-> 0,
          over |-> <<>>, update |-> <<>>, returned |-> TRUE]
    ELSE AvalancheSection(
            PowerUpSection(
              CabinSection(
                ObstacleSection(
                  [player |-> fc.p, obstacles |-> obs, decorations |-> decs,
                   powerUps |-> pus, avalancheX |-> av, created |-> fc.created,
                   delivers |-> 0, collects |-> 0, over |-> <<>>, update |-> <<>>,
                   returned |-> FALSE], t))), ms)

updatePhysics(p0, t, obs, decs, pus, av, ref, holding, ms) ==
    AfterFloor(FloorCollision(Integrate(p0, ref), t, holding), t, obs, decs, pus, av, ms)

(* render(): every particle loses 0.02 of life, the dead ones are dropped *)
RECURSIVE Fade(_)
Fade(ps) ==
    IF ps = <<>> THEN <<>>
    ELSE IF Head(ps) - 1 > 0 THEN <<Head(ps) - 1>> \o Fade(Tail(ps))
    ELSE Fade(Tail(ps))

NewParticles(n) == [i \in 1..n |-> PARTICLE_LIFE]


RECURSIVE DeliverTimes(_, _)
DeliverTimes(n, pv) == IF n = 0 THEN pv ELSE DeliverTimes(n - 1, Decrement(pv))

RECURSIVE PlaceTimes(_, _)
PlaceTimes(n, prev) == IF n = 0 THEN prev ELSE PlaceTimes(n - 1, PlaceFish(prev))

(***************************************************************************)
(* The record of the last operation: its name, its argument, the values    *)
(* it started from and the callbacks it made.                              *)
(***************************************************************************)
Before ==
    [inv |-> fishInventory, slots |-> grillSlots, ref |-> fishInventoryRef,
     p |-> player, av |-> avalancheX, decs |-> decorations, obs |-> obstacles,
     hs |-> highScore, pus |-> powerUps]

NoCalls == [delivers |-> 0, collects |-> 0, over |-> <<>>, returned |-> FALSE]

Did(op, idx, calls) == last' = [op |-> op, idx |-> idx, pre |-> Before, calls |-> calls]

Rendered == [gameState |-> gameState, fishInventory |-> fishInventory,
             grillSlots |-> grillSlots, highScore |-> highScore]

(* a callback outside a click: it may run while fewer than MaxPending      *)
(* callbacks wait for their commit, and waits for it if it changed a state *)
CanQueue == pending < MaxPending

Queued ==
    pending' = IF <<gameState', fishInventory', grillSlots', highScore'>>
                  = <<gameState, fishInventory, grillSlots, highScore>>
               THEN pending ELSE pending + 1

(***************************************************************************)
(* The state after the components are mounted.                             *)
(***************************************************************************)
Init ==
    /\ gameState = "MENU"
    /\ fishInventory = 0
    /\ grillSlots = InitialSlots
    /\ highScore = 0
    /\ hud = [score |-> 0, status |-> "none", dist |-> 100]
    /\ view = [gameState |-> "MENU", fishInventory |-> 0, grillSlots |-> InitialSlots,
               highScore |-> 0]
    /\ cookTimer = FALSE
    /\ loopOn = FALSE
    /\ fishInventoryRef = 0
    /\ isHolding = FALSE
    /\ player = MountPlayer
    /\ terrain = <<>>
    /\ obstacles = <<>>
    /\ decorations = <<>>
    /\ powerUps = <<>>
    /\ particles = <<>>
    /\ avalancheX = -500000
    /\ elapsed = 0
    /\ frameCount = 0
    /\ budget = MaxFrames
    /\ frames = 0
    /\ stalls = 0
    /\ presses = 0
    /\ pending = 0
    /\ nCook = 0
    /\ runs = 0
    /\ gameOverCalls = 0
    /\ last = [op |-> "mount", idx |-> 0, pre |-> Before, calls |-> NoCalls]

(***************************************************************************)
(* The effects of a commit: the inventory ref follows the rendered         *)
(* inventory; when the rendered gameState changes, the cook interval and   *)
(* the frame loop are cleared and, for PLAYING, set again.                 *)
(***************************************************************************)
(* a variant whose cleanups cancel neither the interval nor the animation frame *)
CommitKeepsSchedules(v) ==
    /\ view' = v
    /\ fishInventoryRef' = v.fishInventory
    /\ cookTimer' = (cookTimer \/ v.gameState = "PLAYING")
    /\ loopOn' = (loopOn \/ v.gameState = "PLAYING")

Commit(v) ==
    /\ view' = v
    /\ fishInventoryRef' = v.fishInventory
    /\ cookTimer' = IF v.gameState # view.gameState THEN v.gameState = "PLAYING" ELSE cookTimer
    /\ loopOn' = IF v.gameState # view.gameState THEN v.gameState = "PLAYING" ELSE loopOn

(* a variant that keeps the obstacles of the run before *)
initGameKeepsObstacles ==
    /\ player' = InitialPlayer
    /\ terrain' = InitialTerrain
    /\ obstacles' = obstacles
    /\ decorations' = <<>>
    /\ powerUps' = <<>>
    /\ particles' = <<>>
    /\ avalancheX' = START_AVALANCHE
    /\ elapsed' = 0

(* initGame *)
initGame ==
    /\ player' = InitialPlayer
    /\ terrain' = InitialTerrain
    /\ obstacles' = <<>>
    /\ decorations' = <<>>
    /\ powerUps' = <<>>
    /\ particles' = <<>>
    /\ avalancheX' = START_AVALANCHE
    /\ elapsed' = 0

(* a variant that shows a start button on every screen *)
StartShownAlways == TRUE

(* the screens of the last render that carry a button calling startGame *)
StartShown == view.gameState \in {"MENU", "GAME_OVER"}

(***************************************************************************)
(* startGame: the click on the menu's or the game-over panel's button,     *)
(* with the commit that follows it and the effects of entering PLAYING.    *)
(***************************************************************************)
startGame ==
    /\ StartShown
    /\ runs < MaxRuns
    /\ hud' = [hud EXCEPT !.score = 0, !.status = "none"]
    /\ gameState' = "PLAYING"
    /\ fishInventory' = 0
    /\ grillSlots' = InitialSlots
    /\ Commit([gameState |-> "PLAYING", fishInventory |-> 0, grillSlots |-> InitialSlots,
               highScore |-> highScore])
    /\ initGame
    /\ frames' = 0
    /\ gameOverCalls' = 0
    /\ runs' = runs + 1
    /\ pending' = 0
    /\ Did("start", 0, NoCalls)
    /\ UNCHANGED <<highScore, isHolding, frameCount, budget, stalls, presses, nCook>>

(***************************************************************************)
(* The commit of the updates queued by timer and frame callbacks.          *)
(***************************************************************************)
Render ==
    /\ view # Rendered
    /\ Commit(Rendered)
    /\ pending' = 0
    /\ Did("render", 0, NoCalls)
    /\ UNCHANGED <<appVars, canvasVars, nCook, runs, gameOverCalls>>

(***************************************************************************)
(* The cook interval's callback.                                           *)
(***************************************************************************)
cookInterval ==
    /\ cookTimer
    /\ \E i \in 1..NumSlots : grillSlots[i].isCooking
    /\ grillSlots' = CookAll(grillSlots)
    /\ Did("cook", 0, NoCalls)
    /\ CanQueue
    /\ UNCHANGED <<gameState, fishInventory, highScore, hud, view, cookTimer, loopOn,
                   fishInventoryRef, canvasVars, runs, gameOverCalls>>
    /\ Queued

(* the callback, counted up to MaxCookTicks *)
cookTick ==
    /\ nCook < MaxCookTicks
    /\ nCook' = nCook + 1
    /\ cookInterval

(* the callback for as long as the interval is set *)
cookFires ==
    /\ cookInterval
    /\ UNCHANGED nCook

(***************************************************************************)
(* handleSlotTap(index): the click on an enabled grill button.  The        *)
(* handler reads the slot and the inventory of the render it was created   *)
(* in.  The commit that follows holds the tap's updates, and either also   *)
(* the updates still queued by callbacks (all) or not.                     *)
(***************************************************************************)
(* a variant without the capacity test *)
TapCollectsAtCapacity(slot, inventory) ==
    slot.isCooking /\ slot.state = "perfect"

TapCollects(slot, inventory) ==
    slot.isCooking /\ slot.state = "perfect" /\ inventory < Capacity

handleSlotTap(index) ==
    /\ view.gameState = "PLAYING"
    /\ view.grillSlots[index].isCooking
    /\ IF TapCollects(view.grillSlots[index], view.fishInventory)
       THEN /\ fishInventory' = fishInventory + 1
            /\ grillSlots' = ClearSlot(grillSlots, index)
            /\ \E all \in BOOLEAN :
                 /\ Commit(IF all
                           THEN [gameState |-> gameState, fishInventory |-> fishInventory',
                                 grillSlots |-> grillSlots', highScore |-> highScore]
                           ELSE [view EXCEPT !.fishInventory = @ + 1,
                                             !.grillSlots = ClearSlot(@, index)])
                 /\ pending' = IF all THEN 0 ELSE pending
       ELSE UNCHANGED <<fishInventory, grillSlots, view, fishInventoryRef, cookTimer, loopOn,
                        pending>>
    /\ Did("tap", index, NoCalls)
    /\ UNCHANGED <<gameState, highScore, hud, canvasVars, nCook, runs, gameOverCalls>>

(***************************************************************************)
(* handleGameOver(finalScore), as the frame loop reaches it through        *)
(* callbacksRef: the handler of the last render.                           *)
(***************************************************************************)
(* a variant that always takes the final score *)
HighScoreAlwaysFinal(finalScore) == finalScore

HighScoreAfter(finalScore) == IF finalScore > view.highScore THEN finalScore ELSE highScore

(***************************************************************************)
(* gameLoop: one frame.  The loop's closure holds the gameState of the     *)
(* render that started it, PLAYING, so neither its guard nor the guard of  *)
(* the onGameOver call can fail while the loop is scheduled.               *)
(***************************************************************************)
SpawnAllowed == Len(terrain) > 0 /\
    terrain[Len(terrain)].x + TERRAIN_SEGMENT_WIDTH
        < 2 * GAME_WIDTH + SpawnSamples * TERRAIN_SEGMENT_WIDTH

(* the assignments of a frame whose updateTerrain gave t and whose          *)
(* updatePhysics gave ph                                                   *)
FrameResult(t, ph, ms) ==
    /\ elapsed' = ms
    /\ terrain' = t.terrain
    /\ player' = ph.player
    /\ obstacles' = ph.obstacles
    /\ decorations' = ph.decorations
    /\ powerUps' = ph.powerUps
    /\ avalancheX' = ph.avalancheX
    /\ particles' = Fade(particles \o NewParticles(ph.created))
    /\ fishInventory' = DeliverTimes(ph.delivers, fishInventory)
    /\ grillSlots' = PlaceTimes(ph.collects, grillSlots)
    /\ gameState' = IF ph.over # <<>> THEN "GAME_OVER" ELSE gameState
    /\ highScore' = IF ph.over # <<>> THEN HighScoreAfter(ph.over[1]) ELSE highScore
    /\ hud' = IF ph.update # <<>> THEN ph.update[1] ELSE hud
    /\ gameOverCalls' = gameOverCalls + Len(ph.over)
    /\ Did("frame", 0, [delivers |-> ph.delivers, collects |-> ph.collects,
                        over |-> ph.over, returned |-> ph.returned])

FrameOn(t, ms, spawns) ==
    /\ t.extended \/ ~spawns
    /\ FrameResult(t, updatePhysics(player, t.terrain, t.obstacles, t.decorations,
                                    t.powerUps, avalancheX, fishInventoryRef, isHolding, ms),
                   ms)

frameTick(gap) ==
    /\ loopOn
    /\ budget > 0
    /\ budget' = budget - 1
    /\ frameCount' = frameCount + 1
    /\ \E deco \in DecoKinds, game \in GameKinds, jitter \in JitterSet, off \in TreeOffsets :
        /\ SpawnAllowed \/ (deco = "none" /\ game = "none")
        /\ FrameOn(updateTerrain(terrain, obstacles, decorations, powerUps, player.x,
                                 deco, game, jitter, off),
                   elapsed + gap, deco # "none" \/ game # "none")
    /\ CanQueue
    /\ frames' = frames + 1
    /\ UNCHANGED <<view, cookTimer, loopOn, fishInventoryRef, isHolding, stalls, presses,
                   nCook, runs>>
    /\ Queued

(* the frame that the browser calls FrameMs after the one before *)
gameLoop == frameTick(FrameMs)

(***************************************************************************)
(* handleInputStart: a press on the canvas; inBand says that it fell into  *)
(* the bottom 120 pixels.  handleInputEnd: the release.                    *)
(***************************************************************************)
(* a variant that jumps in the air as well *)
JumpsAnywhere(p) == TRUE

(* the press is a jump *)
Jumps(p) == p.isGrounded

handleInputStart(inBand) ==
    /\ presses < MaxPresses
    /\ frames >= PressFrom
    /\ presses' = presses + 1
    /\ IF inBand \/ view.gameState # "PLAYING"
       THEN UNCHANGED <<isHolding, player, particles>>
       ELSE /\ isHolding' = TRUE
            /\ IF Jumps(player)
               THEN /\ player' = [player EXCEPT !.vy = JUMP_FORCE, !.isGrounded = FALSE,
                                                !.y = @ - 10000]
                    /\ particles' = particles \o NewParticles(5)
               ELSE /\ player' = IF player.flightTimer > 0
                                 THEN [player EXCEPT !.vy = (JUMP_FORCE * 6) \div 10]
                                 ELSE player
                    /\ UNCHANGED particles
    /\ Did("press", IF inBand THEN 1 ELSE 0, NoCalls)
    /\ UNCHANGED <<appVars, view, cookTimer, loopOn, fishInventoryRef, terrain, obstacles,
                   decorations, powerUps, avalancheX, elapsed, frameCount, budget, frames, stalls,
                   pending, nCook, runs, gameOverCalls>>

handleInputEnd ==
    /\ isHolding
    /\ isHolding' = FALSE
    /\ Did("release", 0, NoCalls)
    /\ UNCHANGED <<appVars, view, cookTimer, loopOn, fishInventoryRef, player, terrain,
                   obstacles, decorations, powerUps, particles, avalancheX, elapsed,
                   frameCount, budget, frames, stalls, presses, pending, nCook, runs,
                   gameOverCalls>>

(***************************************************************************)
(* The wall clock runs on while no frame is drawn.                         *)
(***************************************************************************)
clockAdvance ==
    /\ loopOn
    /\ stalls < MaxStalls
    /\ frames < StallBefore
    /\ \E d \in StallSet : elapsed' = elapsed + d
    /\ stalls' = stalls + 1
    /\ Did("clock", 0, NoCalls)
    /\ UNCHANGED <<appVars, view, cookTimer, loopOn, fishInventoryRef, isHolding, worldVars,
                   frameCount, budget, frames, presses, pending, nCook, runs, gameOverCalls>>

Next ==
    \/ startGame
    \/ Render
    \/ cookTick
    \/ \E index \in 1..NumSlots : handleSlotTap(index)
    \/ gameLoop
    \/ \E inBand \in BOOLEAN : handleInputStart(inBand)
    \/ handleInputEnd
    \/ clockAdvance

Spec == Init /\ [][Next]_vars

(***************************************************************************)
(* The App component alone.  The frame loop is replaced by the calls it    *)
(* makes through callbacksRef while it is scheduled: onCollectFish at a    *)
(* fish pickup, onDeliverFish at a cabin when the inventory ref is         *)
(* positive, onGameOver when the avalanche has caught the player.          *)
(***************************************************************************)
onCollectFish ==
    /\ loopOn
    /\ grillSlots' = PlaceFish(grillSlots)
    /\ CanQueue
    /\ Did("collect", 0, NoCalls)
    /\ UNCHANGED <<gameState, fishInventory, highScore, hud, view, cookTimer, loopOn,
                   fishInventoryRef, nCook, runs, gameOverCalls>>
    /\ Queued

handleCollectFish ==
    /\ onCollectFish
    /\ UNCHANGED canvasVars

(* the call made by one of the frames still to be taken *)
pickupFish ==
    /\ budget > 0
    /\ budget' = budget - 1
    /\ onCollectFish
    /\ UNCHANGED <<isHolding, player, terrain, obstacles, decorations, powerUps, particles,
                   avalancheX, elapsed, frameCount, frames, stalls, presses>>

handleDeliverFish ==
    /\ loopOn
    /\ fishInventoryRef > 0
    /\ fishInventory' = Decrement(fishInventory)
    /\ CanQueue
    /\ Did("deliver", 0, NoCalls)
    /\ UNCHANGED <<gameState, grillSlots, highScore, hud, view, cookTimer, loopOn,
                   fishInventoryRef, canvasVars, nCook, runs, gameOverCalls>>
    /\ Queued

handleGameOver(finalScore) ==
    /\ loopOn
    /\ gameOverCalls < MaxOverCalls
    /\ gameState' = "GAME_OVER"
    /\ highScore' = HighScoreAfter(finalScore)
    /\ gameOverCalls' = gameOverCalls + 1
    /\ CanQueue
    /\ Did("over", finalScore, NoCalls)
    /\ UNCHANGED <<fishInventory, grillSlots, hud, view, cookTimer, loopOn,
                   fishInventoryRef, canvasVars, nCook, runs>>
    /\ Queued

(***************************************************************************)
(* Besides the mounted state, the App is started in the middle of a run:   *)
(* the inventory anywhere in 0..Capacity and each slot idle, freshly       *)
(* filled, two ticks before perfect or three ticks before burnt, so that   *)
(* a few cook ticks cross both thresholds.                                 *)
(***************************************************************************)
PerfectTick == PerfectAbove \div CookStep + 1
BurntTick == BurntAbove \div CookStep + 1

CookingSlot(i, n) ==
    [id |-> SlotIds[i], progress |-> n * CookStep,
     state |-> IF n * CookStep > PerfectAbove THEN "perfect" ELSE "raw", isCooking |-> TRUE]

StartTicks == {PerfectTick - 2, BurntTick - 3}

MidRunSlots ==
    {s \in [1..NumSlots -> {EmptySlot(i) : i \in 1..NumSlots}
                             \cup {CookingSlot(i, n) : i \in 1..NumSlots, n \in StartTicks}] :
        \A i \in 1..NumSlots : s[i].id = SlotIds[i]}

InitApp ==
    \/ Init
    \/ /\ gameState = "PLAYING"
       /\ fishInventory \in 0..Capacity
       /\ grillSlots \in MidRunSlots
       /\ highScore = 0
       /\ hud = [score |-> 0, status |-> "none", dist |-> 100]
       /\ view = Rendered
       /\ cookTimer = TRUE
       /\ loopOn = TRUE
       /\ fishInventoryRef = fishInventory
       /\ isHolding = FALSE
       /\ player = InitialPlayer
       /\ terrain = InitialTerrain
       /\ obstacles = <<>>
       /\ decorations = <<>>
       /\ powerUps = <<>>
       /\ particles = <<>>
       /\ avalancheX = START_AVALANCHE
       /\ elapsed = 0
       /\ frameCount = 0
       /\ budget = MaxFrames
       /\ frames = 0
       /\ stalls = 0
       /\ presses = 0
       /\ pending = 0
       /\ nCook = 0
       /\ runs = 1
       /\ gameOverCalls = 0
       /\ last = [op |-> "mount", idx |-> 0, pre |-> Before, calls |-> NoCalls]

NextApp ==
    \/ startGame
    \/ Render
    \/ cookTick
    \/ \E index \in 1..NumSlots : handleSlotTap(index)
    \/ handleCollectFish
    \/ handleDeliverFish
    \/ \E finalScore \in 0..MaxFinalScore : handleGameOver(finalScore)

SpecApp == InitApp /\ [][NextApp]_vars

(***************************************************************************)
(* The grill over a whole cooking time.  The run is under way, slot 1      *)
(* holds a fish three ticks before burnt, the other slots are idle, and    *)
(* the frames still to come pick up GrillPickups fish, each of which cooks *)
(* from its placement on.                                                  *)
(* The cook interval fires every 50 ms for as long as it is set, and React *)
(* commits every queued update.                                            *)
(***************************************************************************)
GrillPickups == 1

GrillTicks == {BurntTick - 3}

GrillSlots ==
    {[InitialSlots EXCEPT ![1] = CookingSlot(1, n)] : n \in GrillTicks}

InitGrill ==
    /\ gameState = "PLAYING"
    /\ fishInventory \in {0, Capacity}
    /\ grillSlots \in GrillSlots
    /\ highScore = 0
    /\ hud = [score |-> 0, status |-> "none", dist |-> 100]
    /\ view = Rendered
    /\ cookTimer = TRUE
    /\ loopOn = TRUE
    /\ fishInventoryRef = fishInventory
    /\ isHolding = FALSE
    /\ player = InitialPlayer
    /\ terrain = InitialTerrain
    /\ obstacles = <<>>
    /\ decorations = <<>>
    /\ powerUps = <<>>
    /\ particles = <<>>
    /\ avalancheX = START_AVALANCHE
    /\ elapsed = 0
    /\ frameCount = 0
    /\ budget = GrillPickups
    /\ frames = 0
    /\ stalls = 0
    /\ presses = 0
    /\ pending = 0
    /\ nCook = 0
    /\ runs = 1
    /\ gameOverCalls = 0
    /\ last = [op |-> "mount", idx |-> 0, pre |-> Before, calls |-> NoCalls]

NextGrill ==
    \/ Render
    \/ cookFires
    \/ \E index \in 1..NumSlots : handleSlotTap(index)
    \/ pickupFish
    \/ handleDeliverFish
    \/ \E finalScore \in 0..MaxFinalScore : handleGameOver(finalScore)

SpecGrill == InitGrill /\ [][NextGrill]_vars /\ WF_vars(cookFires) /\ WF_vars(Render)

(***************************************************************************)
(* The frame loop in the middle of a run.  The canvas is in the state that *)
(* a number of frames of gameLoop leave behind when nothing is pressed,    *)
(* the frames come MidRunFrameMs apart and the random draws of             *)
(* updateTerrain have spawned one of two scenes:                           *)
(*   "cabins": cabins at CabinSamples and a fish at FishSamples, all still *)
(*             ahead of the player after MidRunFrames frames; the fish     *)
(*             picked up earlier in the run have left the inventory        *)
(*             anywhere in 0..Capacity and slot 1 idle or close to burnt;  *)
(*   "rock":   a rock at RockSamples, shortly ahead of the place where the *)
(*             player comes down after CrashFrom frames.                   *)
(***************************************************************************)
MidRunFrames == 150
MidRunFrameMs == 100
RunFrames == 8
CrashFrom == 100
CrashFrames == 20
CabinSamples == {2520000, 2560000}
FishSamples == {2480000}
RockSamples == {1680000}
LandingCabinSamples == {1640000}
LandingRockSamples == {1680000, 1720000}

DecoAt(scene, nextX) ==
    IF scene = "cabins" /\ nextX \in CabinSamples THEN "cabin"
    ELSE IF scene = "landing" /\ nextX \in LandingCabinSamples THEN "cabin"
    ELSE "none"

GameAt(scene, nextX) ==
    IF scene = "cabins" /\ nextX \in FishSamples THEN "fish"
    ELSE IF scene = "rock" /\ nextX \in RockSamples THEN "rock"
    ELSE IF scene = "landing" /\ nextX \in LandingRockSamples THEN "rock"
    ELSE "none"

StartWorld ==
    [player |-> InitialPlayer, terrain |-> InitialTerrain, obstacles |-> <<>>,
     decorations |-> <<>>, powerUps |-> <<>>, avalancheX |-> START_AVALANCHE, calls |-> 0]

WorldOf(ph, t, calls) ==
    [player |-> ph.player, terrain |-> t, obstacles |-> ph.obstacles,
     decorations |-> ph.decorations, powerUps |-> ph.powerUps, avalancheX |-> ph.avalancheX,
     calls |-> calls + ph.delivers + ph.collects + Len(ph.over)]

WorldOn(t, w, ms) ==
    WorldOf(updatePhysics(w.player, t.terrain, t.obstacles, t.decorations, t.powerUps,
                          w.avalancheX, 0, FALSE, ms),
            t.terrain, w.calls)

WorldStep(scene, w, ms) ==
    WorldOn(updateTerrain(w.terrain, w.obstacles, w.decorations, w.powerUps, w.player.x,
                          DecoAt(scene, w.terrain[Len(w.terrain)].x + TERRAIN_SEGMENT_WIDTH),
                          GameAt(scene, w.terrain[Len(w.terrain)].x + TERRAIN_SEGMENT_WIDTH),
                          0, 0),
            w, ms)

(* frames a+1 .. b applied to w, split in halves to keep the evaluation shallow *)
RECURSIVE WorldSteps(_, _, _, _)
RECURSIVE WorldThen(_, _, _, _)
WorldSteps(scene, w, a, b) ==
    IF b = a THEN w
    ELSE IF b = a + 1 THEN WorldStep(scene, w, b * MidRunFrameMs)
    ELSE WorldThen(scene, WorldSteps(scene, w, a, (a + b) \div 2), (a + b) \div 2, b)

WorldThen(scene, w, a, b) == IF w.calls = 0 THEN WorldSteps(scene, w, a, b) ELSE w

WorldAfter(scene, n) == WorldSteps(scene, StartWorld, 0, n)

RunSlots == {InitialSlots, [InitialSlots EXCEPT ![1] = CookingSlot(1, BurntTick - 3)]}

(* the program n frames into its first run, with the canvas as in w *)
MidRun(w, n, ms, inventory, slots, best, ticks) ==
    /\ w.calls = 0
    /\ gameState = "PLAYING"
    /\ fishInventory = inventory
    /\ grillSlots = slots
    /\ highScore = best
    /\ hud = [score |-> w.player.x \div 10000, status |-> Status(w.player),
              dist |-> Max(0, (w.player.x - w.avalancheX) \div 10000)]
    /\ view = Rendered
    /\ cookTimer = TRUE
    /\ loopOn = TRUE
    /\ fishInventoryRef = inventory
    /\ isHolding = FALSE
    /\ player = [w.player EXCEPT !.fishInventory = inventory]
    /\ terrain = w.terrain
    /\ obstacles = w.obstacles
    /\ decorations = w.decorations
    /\ powerUps = w.powerUps
    /\ particles = <<>>
    /\ avalancheX = w.avalancheX
    /\ elapsed = ms
    /\ frameCount = n
    /\ budget = ticks
    /\ frames = n
    /\ stalls = 0
    /\ presses = 0
    /\ pending = 0
    /\ nCook = 0
    /\ runs = 1
    /\ gameOverCalls = 0
    /\ last = [op |-> "mount", idx |-> 0, pre |-> Before, calls |-> NoCalls]

InitRun ==
    \E w \in {WorldAfter("cabins", MidRunFrames)}, inventory \in 0..Capacity,
       slots \in RunSlots :
         MidRun(w, MidRunFrames, MidRunFrames * MidRunFrameMs, inventory, slots, 0, RunFrames)

NextRun ==
    \/ Render
    \/ cookTick
    \/ \E index \in 1..NumSlots : handleSlotTap(index)
    \/ gameLoop
    \/ \E inBand \in BOOLEAN : handleInputStart(inBand)
    \/ handleInputEnd

SpecRun == InitRun /\ [][NextRun]_vars

(***************************************************************************)
(* The frame loop around a landing: the "rock" scene after CrashFrom       *)
(* frames, with the wall clock either in step with the frames or far ahead *)
(* of them (the page was hidden for a while before the next frame), and    *)
(* the best score of the session 0 or 500.                                 *)
(***************************************************************************)
BestSet == {0, 500}

InitCrash ==
    \E w \in {WorldAfter("rock", CrashFrom)},
       ms \in {CrashFrom * MidRunFrameMs} \cup StallSet, best \in BestSet :
         MidRun(w, CrashFrom, ms, 0, InitialSlots, best, CrashFrames)

NextCrash ==
    \/ Render
    \/ gameLoop
    \/ \E inBand \in BOOLEAN : handleInputStart(inBand)
    \/ handleInputEnd

SpecCrash == InitCrash /\ [][NextCrash]_vars

(***************************************************************************)
(* The same frames with the game-over panel's button: the run ends, by the *)
(* avalanche after a pause or not at all within the frames taken, and the  *)
(* next run is started while the canvas handlers go on being called.       *)
(***************************************************************************)
NextRestart ==
    \/ NextCrash
    \/ startGame

SpecRestart == InitCrash /\ [][NextRestart]_vars

(***************************************************************************)
(* updatePhysics at a ground contact.  In the "landing" scene (a cabin at  *)
(* LandingCabinSamples and rocks at LandingRockSamples just behind it) the  *)
(* player comes down LandingFrom + 1 frames after the start.  The frame    *)
(* starts from drawn values of what the landing logic reads: the rotation  *)
(* (the ground angle of the contact plus or minus one of LandingDiffs,     *)
(* after backflipCount full turns), backflipCount, the invincibility timer *)
(* (sunglasses picked up 175 to 180 frames before) and the inventory (a    *)
(* fish of the grill just collected or not), on a clock that may have run  *)
(* on while the loop was paused.                                           *)
(***************************************************************************)
LandingFrom == 113
LandingFrames == 5
MaxFlips == 2
LandingDiffs == {0, PERFECT_THRESHOLD - 1, PERFECT_THRESHOLD, PERFECT_THRESHOLD + 1,
                 CRASH_THRESHOLD - 1, CRASH_THRESHOLD, CRASH_THRESHOLD + 1}
LandingTimers == {0, 1, 2, 3, 5}

(* the ground angle under the place the player of w reaches in one frame *)
ContactAngle(w) ==
    getGroundY(w.terrain, Integrate(w.player, 0).x).angle

(* w with the player turned to angle + diff after flips backflips *)
Turned(w, angle, diff, flips, timer) ==
    [w EXCEPT !.player = [@ EXCEPT !.rotation = angle + diff - flips * 2 * PI,
                                   !.backflipCount = flips,
                                   !.invincibleTimer = timer]]

InitLanding ==
    \E w \in {WorldAfter("landing", LandingFrom)} :
      \E angle \in {ContactAngle(w)}, d \in LandingDiffs, sign \in {-1, 1},
         flips \in 0..MaxFlips, timer \in LandingTimers, inventory \in 0..1,
         ms \in {LandingFrom * MidRunFrameMs} \cup StallSet :
           /\ flips = 0 => sign = -1
           /\ d = 0 => sign = -1
           /\ MidRun(Turned(w, angle, sign * d, flips, timer), LandingFrom,
                     ms, inventory, InitialSlots, 0, LandingFrames)

SpecLanding == InitLanding /\ [][NextCrash]_vars

(***************************************************************************)
(* updatePhysics in the air.  In the "landing" scene the player is some 70 *)
(* above the ground SpinFrom frames after the start, sinks below 50 and    *)
(* comes down within SpinFrames frames, passing the cabin on the way.  The *)
(* run starts with the rotation of an airborne phase with held input:      *)
(* flips full backflips counted and the next one SpinOffsets short of      *)
(* being counted by the next turn.                                         *)
(***************************************************************************)
SpinFrom == 104
SpinFrames == 11
SpinOffsets == {0, 1, ROTATION_SPEED}

(* the rotation from which a backflip counts: |rotation| + PI / 2 = 2 PI *)
FlipAt == 2 * PI - PI \div 2

InitSpin ==
    \E w \in {WorldAfter("landing", SpinFrom)}, flips \in 0..MaxFlips, e \in SpinOffsets,
       inventory \in 0..1 :
         MidRun(Turned(w, -FlipAt, ROTATION_SPEED + e, flips, 0), SpinFrom,
                SpinFrom * MidRunFrameMs, inventory, InitialSlots, 0, SpinFrames)

SpecSpin == InitSpin /\ [][NextCrash]_vars

(***************************************************************************)
(* The frame loop of a player who never touches the screen, on a device    *)
(* that draws a frame every IdleGapMs: the "bare" scene (nothing spawned)  *)
(* IdleFrom frames after the start, then frames and commits only.  The     *)
(* browser keeps calling the frame it was asked for and React commits what *)
(* is queued, hence the weak fairness of both.                             *)
(***************************************************************************)
IdleFrom == 3
IdleFrames == 200
IdleGapMs == 1000

InitIdle ==
    \E w \in {WorldAfter("bare", IdleFrom)}, best \in BestSet :
         MidRun(w, IdleFrom, IdleFrom * MidRunFrameMs, 0, InitialSlots, best, IdleFrames)

slowLoop == frameTick(IdleGapMs)

NextIdle ==
    \/ slowLoop
    \/ Render

(* requestAnimationFrame: the browser calls the frame that the loop asked  *)
(* for.  frameCalled is the part of a frame step that the scheduling sees:  *)
(* a step of slowLoop is one that counts a frame, and it is possible        *)
(* exactly when the loop is on and a frame can still be taken.              *)
FrameDue == loopOn /\ budget > 0 /\ CanQueue

frameCalled == FrameDue /\ frames' = frames + 1

SpecIdle == InitIdle /\ [][NextIdle]_vars /\ WF_frames(frameCalled) /\ WF_vars(Render)

(***************************************************************************)
(* Properties.  They read the record of the last operation: last.pre holds *)
(* the values the operation started from.                                  *)
(***************************************************************************)
IsPerfect(slot) == slot.isCooking /\ slot.state = "perfect"

Emptied(slot) == [slot EXCEPT !.isCooking = FALSE, !.progress = 0, !.state = "raw"]

Fresh(slot) == [slot EXCEPT !.isCooking = TRUE, !.progress = 0, !.state = "raw"]

(* C1: in every reachable state the cooked-fish count is between 0 and 3, *)
(* in the state cell, in the rendered value and in the canvas' ref.        *)
C1_InventoryInRange ==
    /\ fishInventory \in 0..Capacity
    /\ view.fishInventory \in 0..Capacity
    /\ fishInventoryRef \in 0..Capacity

(* C1: a tap has collected the fish that fills the inventory *)
C1_Witness ==
    /\ last.op = "tap"
    /\ last.pre.inv = Capacity - 1
    /\ fishInventory = Capacity

(* C2: in each run onGameOver is delivered at most once, however many      *)
(* frames run between the catching frame and the cancellation of the loop. *)
C2_GameOverOnce == gameOverCalls <= 1

(* C3: after every frame the avalanche is not behind its position before   *)
(* the frame and not more than 100 ahead of the player.                    *)
C3_AvalancheMonotoneAndClamped ==
    last.op = "frame" =>
        /\ avalancheX >= last.pre.av
        /\ avalancheX <= player.x + AVALANCHE_LEAD

(* C3: a frame in which the clamp has acted *)
C3_Witness ==
    /\ last.op = "frame"
    /\ ~last.calls.returned
    /\ avalancheX = player.x + AVALANCHE_LEAD
    /\ avalancheX > last.pre.av

(* C4: a tap on a slot that is not perfect when the tap is processed       *)
(* changes neither the inventory nor any slot.                             *)
C4_TapOnNotPerfectIsNoOp ==
    (last.op = "tap" /\ ~IsPerfect(last.pre.slots[last.idx])) =>
        /\ fishInventory = last.pre.inv
        /\ grillSlots = last.pre.slots

(* C5: a tap on a perfect slot while the inventory is 3 collects nothing:  *)
(* the inventory stays 3 and the slots are as they were.                   *)
C5_TapAtCapacityIsNoOp ==
    (last.op = "tap" /\ IsPerfect(last.pre.slots[last.idx]) /\ last.pre.inv = Capacity) =>
        /\ fishInventory = Capacity
        /\ grillSlots = last.pre.slots
        /\ IsPerfect(grillSlots[last.idx])

(* C5: such a tap has happened *)
C5_Witness ==
    /\ last.op = "tap"
    /\ IsPerfect(last.pre.slots[last.idx])
    /\ IsPerfect(view.grillSlots[last.idx])
    /\ last.pre.inv = Capacity

(* C6: a tap on perfect slot i while the inventory is below 3 adds one to  *)
(* the inventory and empties slot i; the other slots are unchanged.        *)
C6_TapCollects ==
    (last.op = "tap" /\ IsPerfect(last.pre.slots[last.idx]) /\ last.pre.inv < Capacity) =>
        /\ fishInventory = last.pre.inv + 1
        /\ grillSlots = [last.pre.slots EXCEPT ![last.idx] = Emptied(@)]

(* C7: a collect puts a fresh item into the lowest-index slot that is not  *)
(* cooking when it is applied and leaves the others; with all slots        *)
(* cooking it changes nothing.                                             *)
C7_CollectFillsLowestIdle ==
    last.op = "collect" =>
        IF \A i \in 1..NumSlots : last.pre.slots[i].isCooking
        THEN grillSlots = last.pre.slots
        ELSE \E i \in 1..NumSlots :
                /\ ~last.pre.slots[i].isCooking
                /\ \A j \in 1..NumSlots : j < i => last.pre.slots[j].isCooking
                /\ grillSlots = [last.pre.slots EXCEPT ![i] = Fresh(@)]

(* C7: the third of three collects with no render since the first: the     *)
(* render still shows an empty grill, all three slots are cooking          *)
C7_Witness ==
    /\ last.op = "collect"
    /\ \A i \in 1..NumSlots : ~view.grillSlots[i].isCooking
    /\ \A i \in 1..NumSlots : grillSlots[i].isCooking
    /\ ~last.pre.slots[NumSlots].isCooking

(* C8: a cook tick adds the increment to every cooking slot, except that   *)
(* it empties the slot exactly when the sum exceeds the burnt threshold;   *)
(* idle slots are left alone.                                              *)
C8_CookTickStep ==
    last.op = "cook" =>
        \A i \in 1..NumSlots :
            IF ~last.pre.slots[i].isCooking
            THEN grillSlots[i] = last.pre.slots[i]
            ELSE IF last.pre.slots[i].progress + CookStep > BurntAbove
                 THEN grillSlots[i] = Emptied(last.pre.slots[i])
                 ELSE /\ grillSlots[i].isCooking
                      /\ grillSlots[i].progress = last.pre.slots[i].progress + CookStep
                      /\ grillSlots[i].progress > last.pre.slots[i].progress

(* C8: a tick has brought a slot to the threshold itself and left it cooking *)
C8_Witness ==
    /\ last.op = "cook"
    /\ \E i \in 1..NumSlots :
          grillSlots[i].isCooking /\ grillSlots[i].progress = BurntAbove

(* C9: no slot is in state burnt, in the state cell or in the render. *)
C9_NeverBurnt ==
    \A i \in 1..NumSlots :
        grillSlots[i].state # "burnt" /\ view.grillSlots[i].state # "burnt"

(* C9: a tick has taken a slot over the burnt threshold *)
C9_Witness ==
    /\ last.op = "cook"
    /\ \E i \in 1..NumSlots :
          /\ last.pre.slots[i].isCooking
          /\ last.pre.slots[i].progress + CookStep > BurntAbove
          /\ ~grillSlots[i].isCooking

(* decoration i is a cabin whose delivery window holds the player *)
InWindowOfCabin(i) ==
    decorations[i].type = "cabin" /\ InDeliveryWindow(player, decorations[i])

(* C10: a frame that starts with inventory 0 delivers to no cabin whose    *)
(* window the player is in: the cabin stays undelivered, onDeliverFish is  *)
(* not called, flightTimer only counts down and the score is the one the   *)
(* floor collision left.                                                   *)
C10_NoDeliveryWithoutFish ==
    (last.op = "frame" /\ last.pre.ref = 0
        /\ \E i \in 1..Len(decorations) : InWindowOfCabin(i)) =>
        /\ \A i \in 1..Len(decorations) :
              (InWindowOfCabin(i) /\ decorations[i].delivered) =>
                  \E j \in 1..Len(last.pre.decs) :
                      /\ last.pre.decs[j].x = decorations[i].x
                      /\ last.pre.decs[j].delivered
        /\ last.calls.delivers = 0
        /\ player.flightTimer = Countdown(last.pre.p.flightTimer)
        /\ player.score = FloorCollision(Integrate(last.pre.p, 0), terrain, isHolding).p.score

(* C10: a frame with inventory 0 has ended inside an undelivered cabin's window *)
C10_Witness ==
    /\ last.op = "frame"
    /\ last.pre.ref = 0
    /\ ~last.calls.returned
    /\ \E i \in 1..Len(decorations) : InWindowOfCabin(i) /\ ~decorations[i].delivered

(* the cabins that the last operation found undelivered and left delivered *)
NewlyDelivered ==
    {i \in 1..Len(decorations) :
        /\ decorations[i].type = "cabin" /\ decorations[i].delivered
        /\ \E j \in 1..Len(last.pre.decs) :
              last.pre.decs[j].x = decorations[i].x /\ ~last.pre.decs[j].delivered}

(* C11: a frame marks a cabin delivered only if the cabin was undelivered, *)
(* holds the player in its window and the inventory the physics read was   *)
(* nonzero; it emits exactly one deliver event per cabin it marks, sets    *)
(* flightTimer to 80 and adds 500 per marked cabin to the score the floor  *)
(* collision left.  A delivered cabin stays delivered, and no operation    *)
(* other than a frame marks a cabin or emits a deliver event.              *)
C11_DeliveryMarksOnce ==
    /\ last.calls.delivers = Cardinality(NewlyDelivered)
    /\ last.op # "frame" => NewlyDelivered = {}
    /\ NewlyDelivered # {} =>
          /\ last.pre.ref > 0
          /\ \A i \in NewlyDelivered : InWindowOfCabin(i)
          /\ player.flightTimer = FLIGHT_FRAMES
          /\ player.score =
                FloorCollision(Integrate(last.pre.p, last.pre.ref), terrain, isHolding).p.score
                   + DELIVERY_SCORE * Cardinality(NewlyDelivered)
    /\ \A j \in 1..Len(last.pre.decs) :
          last.pre.decs[j].delivered =>
              \A i \in 1..Len(decorations) :
                  decorations[i].x = last.pre.decs[j].x => decorations[i].delivered

(* C11: a frame has delivered to one cabin and left the other one alone *)
C11_Witness ==
    /\ last.op = "frame"
    /\ last.calls.delivers = 1
    /\ Cardinality(NewlyDelivered) = 1
    /\ player.flightTimer = FLIGHT_FRAMES
    /\ \E i \in 1..Len(decorations) :
          decorations[i].type = "cabin" /\ ~decorations[i].delivered

(* the changes of the session state that the program makes *)
SessionSteps ==
    {<<"MENU", "PLAYING">>, <<"PLAYING", "GAME_OVER">>, <<"GAME_OVER", "PLAYING">>}

(* C12: the session state, as set and as rendered, changes only from MENU  *)
(* to PLAYING, from PLAYING to GAME_OVER and from GAME_OVER to PLAYING, so *)
(* MENU is never entered again and GAME_OVER never follows MENU; and a run *)
(* is started only while the session state is MENU or GAME_OVER.           *)
C12_SessionTransitions ==
    [][/\ gameState' # gameState => <<gameState, gameState'>> \in SessionSteps
       /\ view'.gameState # view.gameState =>
             <<view.gameState, view'.gameState>> \in SessionSteps
       /\ runs' # runs => gameState \in {"MENU", "GAME_OVER"} /\ gameState' = "PLAYING"]_vars

(* C12: the second run has been started from the game-over panel *)
C12_Witness ==
    /\ last.op = "start"
    /\ runs = 2
    /\ gameState = "PLAYING"
    /\ view.gameState = "PLAYING"

(* C13: right after a start, the first one or a retry alike, the player is *)
(* at (100, 200) with speed BASE_SPEED, no timers, no score and no fish,   *)
(* the obstacle, decoration, power-up and particle lists are empty, the    *)
(* avalanche is at -800, the inventory is 0 and the three grill slots are  *)
(* idle and raw: the retry starts from the values the first run started    *)
(* from, whatever the run before has left.                                 *)
C13_RetryResets ==
    last.op = "start" =>
        /\ player = [x |-> 100000, y |-> 200000, vx |-> 8000, vy |-> 0, rotation |-> 0,
                     isGrounded |-> FALSE, isDead |-> FALSE, score |-> 0, boostTimer |-> 0,
                     backflipCount |-> 0, totalBackflips |-> 0, invincibleTimer |-> 0,
                     flightTimer |-> 0, fishInventory |-> 0]
        /\ obstacles = <<>> /\ decorations = <<>> /\ powerUps = <<>> /\ particles = <<>>
        /\ avalancheX = -800000
        /\ fishInventory = 0 /\ view.fishInventory = 0 /\ fishInventoryRef = 0
        /\ Len(grillSlots) = 3
        /\ \A i \in 1..3 : /\ grillSlots[i].progress = 0 /\ grillSlots[i].state = "raw"
                           /\ ~grillSlots[i].isCooking
        /\ view.grillSlots = grillSlots

(* C13: a retry after a run that left a dead player, an obstacle and an    *)
(* avalanche far down the slope                                            *)
C13_Witness ==
    /\ last.op = "start"
    /\ runs = 2
    /\ last.pre.p.isDead
    /\ last.pre.p.x > 100000
    /\ last.pre.av > 0

(* C14: while the rendered session state is not PLAYING, the cook interval *)
(* and the frame loop are cleared, no callback update waits for a commit   *)
(* and the last operation was neither a frame nor a cook tick (both leave  *)
(* the rendered state alone, so one run outside PLAYING would show here);  *)
(* and a start leaves nothing of the run before queued: the rendered state *)
(* is the state just set.                                                  *)
C14_SchedulesHaltOutsidePlaying ==
    /\ view.gameState # "PLAYING" =>
          /\ ~loopOn /\ ~cookTimer
          /\ pending = 0
          /\ last.op \notin {"frame", "cook"}
    /\ last.op = "start" =>
          /\ pending = 0
          /\ view = Rendered
          /\ loopOn /\ cookTimer

(* C14: game over has been committed while frame ticks were still to come  *)
C14_Witness ==
    /\ view.gameState = "GAME_OVER"
    /\ last.op = "render"
    /\ budget > 0
    /\ gameOverCalls > 0

(* C15: the deliveries a frame decides are covered by the inventory as the *)
(* latest mutation left it: a frame emits no more deliver events than the  *)
(* inventory held when the frame began, each delivery within the frame     *)
(* having taken one fish from what the next cabin's check sees.            *)
C15_DeliveryReadsLatestInventory ==
    last.op = "frame" => last.calls.delivers <= last.pre.inv

(* C16: the inventory changes only by a tap that collects (+1), by the     *)
(* deliver events of a frame or a single deliver call (each -1, not below  *)
(* 0) and by a start (0).  A cook tick, a frame without a delivery, with   *)
(* or without a pickup, a press, a release, a collect call, a game-over    *)
(* call, a commit and the passing of time leave it as it was.              *)
C16_InventoryChangesOnlyByEvents ==
    CASE last.op = "tap" -> fishInventory \in {last.pre.inv, last.pre.inv + 1}
      [] last.op = "start" -> fishInventory = 0
      [] last.op = "deliver" -> fishInventory = Max(0, last.pre.inv - 1)
      [] last.op = "frame" -> fishInventory = Max(0, last.pre.inv - last.calls.delivers)
      [] OTHER -> fishInventory = last.pre.inv

(* C16: a frame with one delivery has taken one of two fish *)
C16_Witness ==
    /\ last.op = "frame"
    /\ last.calls.delivers = 1
    /\ last.pre.inv = 2
    /\ fishInventory = 1

(* C17: every frame moves the avalanche by the target speed of its time    *)
(* (clamped to 100 ahead of the player) and evaluates the loss condition:  *)
(* an avalanche beyond player.x - 30 marks the player dead and calls       *)
(* onGameOver.                                                             *)
C17_HazardAdvancesEveryTick ==
    last.op = "frame" =>
        /\ avalancheX = AdvanceAvalanche(last.pre.av, player, elapsed)
        /\ avalancheX > player.x - AVALANCHE_CATCH =>
              player.isDead /\ last.calls.over # <<>>

(* the last frame brought the player down at a crash angle *)
CrashLanded ==
    LET q == Integrate(last.pre.p, last.pre.ref)
        g == getGroundY(terrain, q.x)
    IN  /\ last.op = "frame"
        /\ q.flightTimer <= 0 /\ ~q.isGrounded
        /\ q.y >= g.y - 15000 /\ q.vy >= 0
        /\ IsCrash(q, g.angle)

(* the last frame ran the player into a rock *)
RockHit ==
    /\ last.op = "frame"
    /\ \E i \in 1..Len(obstacles), j \in 1..Len(last.pre.obs) :
          /\ obstacles[i].x = last.pre.obs[j].x
          /\ obstacles[i].passed /\ ~last.pre.obs[j].passed

(* C18: a frame with a crash landing or a rock hit leaves the player with  *)
(* horizontal speed 2; the player becomes dead, and onGameOver is called,  *)
(* only in a frame after which the avalanche is beyond player.x - 30, and  *)
(* the session is GAME_OVER only after such a call.                        *)
C18_OnlyAvalancheKills ==
    /\ (CrashLanded \/ RockHit) => player.vx = CRASH_SPEED
    /\ (player.isDead /\ ~last.pre.p.isDead) =>
          last.op = "frame" /\ avalancheX > player.x - AVALANCHE_CATCH
    /\ last.calls.over # <<>> =>
          last.op = "frame" /\ avalancheX > player.x - AVALANCHE_CATCH
    /\ gameState = "GAME_OVER" => gameOverCalls > 0

(* C18: the player has hit a rock after a crash landing and plays on *)
C18_Witness ==
    /\ RockHit
    /\ last.pre.p.vx < BASE_SPEED
    /\ ~player.isDead
    /\ gameState = "PLAYING"
    /\ gameOverCalls = 0

(* C19: no operation lowers the high score, and a frame that calls         *)
(* onGameOver with a final score leaves the high score at the maximum of   *)
(* its value before the frame and that final score.                        *)
C19_HighScoreIsMaximum ==
    /\ highScore >= last.pre.hs
    /\ last.calls.over # <<>> =>
          /\ highScore = Max(last.pre.hs, last.calls.over[1])
          /\ highScore >= last.calls.over[1]

(* C19: a run has ended with a final score below the best of the session *)
C19_Witness ==
    /\ last.op = "frame"
    /\ last.calls.over # <<>>
    /\ last.calls.over[1] > 0
    /\ last.calls.over[1] < last.pre.hs
    /\ highScore = last.pre.hs

(* power-up i is an uncollected fish within 50 of the player *)
FishInReach(pus, i) ==
    /\ pus[i].type = "fish" /\ ~pus[i].collected
    /\ Reaches(player, pus[i])

(* C20: a frame that starts with the inventory at 3 and brings the player  *)
(* within 50 of an uncollected fish marks that fish collected and emits    *)
(* the collect event, and the inventory does not grow: it stays at 3 minus *)
(* the deliveries of the frame.                                            *)
C20_FullInventoryPickup ==
    (last.op = "frame" /\ ~last.calls.returned /\ last.pre.inv = Capacity
       /\ \E j \in 1..Len(last.pre.pus) : FishInReach(last.pre.pus, j)) =>
        /\ \A i \in 1..Len(powerUps) :
              (\E j \in 1..Len(last.pre.pus) :
                   last.pre.pus[j].x = powerUps[i].x /\ FishInReach(last.pre.pus, j))
                 => powerUps[i].collected
        /\ last.calls.collects > 0
        /\ fishInventory <= Capacity
        /\ fishInventory = Max(0, last.pre.inv - last.calls.delivers)

(* C20: the fish has been picked up with three fish in the inventory *)
C20_Witness ==
    /\ last.op = "frame"
    /\ last.pre.inv = Capacity
    /\ last.calls.collects = 1
    /\ fishInventory = Capacity
    /\ \E i \in 1..Len(powerUps) : powerUps[i].type = "fish" /\ powerUps[i].collected
    /\ \E j \in 1..Len(last.pre.pus) : FishInReach(last.pre.pus, j)

(* C21: a player who never presses, on frames that keep running, is       *)
(* eventually caught: the avalanche is beyond player.x - 30, the player is *)
(* marked dead and the session is in GAME_OVER.                            *)
C21_IdlePlayerDies ==
    <>(/\ avalancheX > player.x - AVALANCHE_CATCH
       /\ player.isDead
       /\ gameState = "GAME_OVER")

(* C21: the idle player has been caught, with no press, boost, flight or   *)
(* invincibility, by a frame after the start of the idle run               *)
C21_Witness ==
    /\ gameState = "GAME_OVER"
    /\ player.isDead
    /\ avalancheX > player.x - AVALANCHE_CATCH
    /\ presses = 0 /\ ~isHolding
    /\ player.boostTimer = 0 /\ player.flightTimer = 0 /\ player.invincibleTimer = 0
    /\ player.vx <= MAX_SPEED
    /\ frames > IdleFrom + 100

(* a frame whose updatePhysics came to its onScoreUpdate call *)
Reported == last.op = "frame" /\ ~last.calls.returned

(* C22: the score update of a frame carries the status of the first timer  *)
(* above 0 in the order invincible, flight, boost (none if all are 0), as  *)
(* the timers stand at the end of the tick, and the distance               *)
(* max(0, floor((player.x - avalancheX) / 10)), a natural number.          *)
C22_HudUpdate ==
    Reported =>
        /\ player.invincibleTimer > 0 => hud.status = "INVINCIBLE!"
        /\ (player.invincibleTimer <= 0 /\ player.flightTimer > 0)
              => hud.status = "DELIVERY FLIGHT!"
        /\ (player.invincibleTimer <= 0 /\ player.flightTimer <= 0 /\ player.boostTimer > 0)
              => hud.status = "SPEED BOOST!"
        /\ (player.invincibleTimer <= 0 /\ player.flightTimer <= 0 /\ player.boostTimer <= 0)
              => hud.status = "none"
        /\ hud.dist \in Nat
        /\ IF avalancheX >= player.x THEN hud.dist = 0
           ELSE /\ hud.dist * 10000 <= player.x - avalancheX
                /\ player.x - avalancheX < (hud.dist + 1) * 10000

(* C22: an update sent with the invincibility and the flight timer both    *)
(* running and the avalanche ahead of the player                           *)
C22_Witness ==
    /\ Reported
    /\ player.invincibleTimer > 0 /\ player.flightTimer > 0
    /\ hud.status = "INVINCIBLE!"
    /\ avalancheX > player.x
    /\ hud.dist = 0

(* the last frame was a new ground contact outside flight mode: the player *)
(* was airborne before it and is grounded after it                         *)
NewContact == last.op = "frame" /\ ~last.pre.p.isGrounded /\ player.isGrounded

(* what the landing logic of the last frame read: the angular difference   *)
(* (the contact leaves the ground angle in player.rotation), the           *)
(* invincibility timer after its decrement and the backflip count          *)
ContactDiff == Abs(NormRot(last.pre.p.rotation) - player.rotation)

ContactCrash ==
    ContactDiff > CRASH_THRESHOLD /\ Countdown(last.pre.p.invincibleTimer) <= 0

ContactBonus ==
    IF ContactCrash \/ last.pre.p.backflipCount = 0 THEN 0
    ELSE IF ContactDiff < PERFECT_THRESHOLD THEN 300 * last.pre.p.backflipCount
    ELSE 150 * last.pre.p.backflipCount

(* C23: at a new ground contact outside flight mode the landing crashes    *)
(* (speed 2) iff the angular difference is above 70 degrees and the player *)
(* is not invincible; otherwise with backflipCount > 0 it is perfect       *)
(* (score + 300 * count, boostTimer 60 + 30 * count) iff the difference is *)
(* below 30 degrees and else safe (score + 150 * count); with              *)
(* backflipCount = 0, and in a crash, neither bonus nor boost is granted.  *)
(* The score also counts the deliveries of the frame.                      *)
C23_LandingOutcome ==
    NewContact =>
        /\ ContactCrash => player.vx = CRASH_SPEED
        /\ (~ContactCrash /\ ~RockHit) =>
              player.vx = Integrate(last.pre.p, last.pre.ref).vx /\ player.vx # CRASH_SPEED
        /\ player.score = last.pre.p.score + ContactBonus
                            + DELIVERY_SCORE * last.calls.delivers
        /\ player.boostTimer =
              IF ~ContactCrash /\ last.pre.p.backflipCount > 0
                   /\ ContactDiff < PERFECT_THRESHOLD
              THEN 60 + 30 * last.pre.p.backflipCount
              ELSE Countdown(last.pre.p.boostTimer)
        /\ player.backflipCount = 0

(* C23: a landing at exactly 70 degrees after a backflip, not invincible:  *)
(* no crash, the safe bonus                                                *)
C23_Witness ==
    /\ NewContact
    /\ ContactDiff = CRASH_THRESHOLD
    /\ Countdown(last.pre.p.invincibleTimer) = 0
    /\ last.pre.p.backflipCount = 2
    /\ last.calls.delivers = 0
    /\ player.score = last.pre.p.score + 300
    /\ player.vx # CRASH_SPEED
    /\ player.boostTimer = 0

(* the timers of the last frame after their decrement: invincibility or    *)
(* flight was running                                                      *)
Protected ==
    /\ last.op = "frame"
    /\ \/ Countdown(last.pre.p.invincibleTimer) > 0
       \/ Countdown(last.pre.p.flightTimer) > 0

(* the player stands in the hitbox of a rock that is not marked passed *)
InRock == \E i \in 1..Len(obstacles) : HitsObstacle(player, terrain, obstacles[i])

(* C24: a frame in which, after the decrement of the timers, the           *)
(* invincibility or the flight timer is above 0 has no crash response: the *)
(* horizontal speed is the one of the speed logic and not 2, neither by a  *)
(* landing nor by a rock, and no rock is marked passed.                    *)
C24_NoCrashWhileProtected ==
    Protected =>
        /\ player.vx = Integrate(last.pre.p, last.pre.ref).vx
        /\ player.vx # CRASH_SPEED
        /\ ~RockHit
        /\ \A i \in 1..Len(obstacles), j \in 1..Len(last.pre.obs) :
              obstacles[i].x = last.pre.obs[j].x
                 => obstacles[i].passed = last.pre.obs[j].passed

(* C24: an invincible player has come through the hitbox of a rock *)
C24_Witness ==
    /\ Protected
    /\ ~last.calls.returned
    /\ InRock
    /\ player.vx > CRASH_SPEED

(* C25: a press that the handler takes while it sees PLAYING, outside the  *)
(* bottom band, sets the hold flag; on a grounded player it also sets vy   *)
(* to -15, clears the grounded flag and raises the player by 10; on an     *)
(* airborne player outside flight mode it leaves the player as it is.  A   *)
(* press in the bottom 120 pixels, or while the handler does not see       *)
(* PLAYING, changes nothing of the game.                                   *)
C25_PressEffects ==
    [][presses' = presses + 1 =>
         /\ (last'.idx = 1 \/ view.gameState # "PLAYING") =>
               UNCHANGED <<appVars, worldVars, isHolding, fishInventoryRef, view, cookTimer,
                           loopOn, elapsed, frameCount>>
         /\ (last'.idx = 0 /\ view.gameState = "PLAYING") =>
               /\ isHolding'
               /\ UNCHANGED <<appVars, terrain, obstacles, decorations, powerUps, avalancheX>>
               /\ player.isGrounded =>
                     player' = [player EXCEPT !.vy = -15000, !.isGrounded = FALSE,
                                              !.y = player.y - 10000]
               /\ (~player.isGrounded /\ player.flightTimer <= 0) =>
                     player' = player]_vars

(* C25: a press has been taken on an airborne player outside flight mode   *)
(* who was falling: the player is as before, the hold flag is set          *)
C25_Witness ==
    /\ last.op = "press" /\ last.idx = 0
    /\ view.gameState = "PLAYING"
    /\ ~last.pre.p.isGrounded /\ last.pre.p.flightTimer = 0
    /\ last.pre.p.vy > 0
    /\ player = last.pre.p
    /\ isHolding

(* C26: while the flight timer is above 0 the player is not grounded, and   *)
(* a press taken in flight mode is a flap: vy becomes 0.6 * JUMP_FORCE,    *)
(* the player is not raised and nothing else of the player changes.        *)
C26_FlightPressFlaps ==
    /\ player.flightTimer > 0 => ~player.isGrounded
    /\ (last.op = "press" /\ last.idx = 0 /\ view.gameState = "PLAYING"
          /\ last.pre.p.flightTimer > 0) =>
            player = [last.pre.p EXCEPT !.vy = (JUMP_FORCE * 6) \div 10]

(* the last frame took the floor collision's contact branch, or its         *)
(* airborne branch                                                         *)
Contact == last.op = "frame" /\ ~last.calls.returned /\ player.isGrounded

Airborne == last.op = "frame" /\ ~last.calls.returned /\ ~player.isGrounded

(* C27: in a frame backflipCount falls only by a ground contact outside    *)
(* flight mode, which sets it to 0, and otherwise does not fall; the       *)
(* rotation is turned (by ROTATION_SPEED), and a backflip counted, only in *)
(* a frame in which the player is airborne, the input is held, the flight  *)
(* timer is not running and the player is more than 50 above the ground.   *)
C27_BackflipCount ==
    last.op = "frame" =>
        /\ player.backflipCount < last.pre.p.backflipCount =>
              /\ Contact
              /\ Countdown(last.pre.p.flightTimer) <= 0
              /\ player.backflipCount = 0
        /\ (player.rotation # last.pre.p.rotation /\ ~Contact) =>
              /\ Airborne
              /\ isHolding
              /\ Countdown(last.pre.p.flightTimer) <= 0
              /\ getGroundY(terrain, player.x).y - player.y > 50000
              /\ player.rotation = last.pre.p.rotation - ROTATION_SPEED
        /\ player.backflipCount > last.pre.p.backflipCount =>
              player.rotation = last.pre.p.rotation - ROTATION_SPEED

(* C27: a backflip has been counted on top of an earlier one *)
C27_Witness ==
    /\ Airborne
    /\ isHolding
    /\ last.pre.p.backflipCount = 1
    /\ player.backflipCount = 2
    /\ player.rotation = last.pre.p.rotation - ROTATION_SPEED

(* the player stands in the hitbox of a rock that was marked passed before *)
(* the last frame                                                          *)
InPassedRock ==
    \E i \in 1..Len(last.pre.obs) :
        /\ last.pre.obs[i].passed
        /\ player.x > last.pre.obs[i].x - 7000 /\ player.x < last.pre.obs[i].x + 7000
        /\ player.y > getGroundY(terrain, last.pre.obs[i].x).y - last.pre.obs[i].height

(* C28: a frame leaves every rock that was marked passed marked passed,    *)
(* and it resets the speed to 2 for a rock only together with marking a    *)
(* rock passed that was not: a rock is hit once.                           *)
C28_RockHitsOnce ==
    last.op = "frame" =>
        /\ \A i \in 1..Len(obstacles), j \in 1..Len(last.pre.obs) :
              (obstacles[i].x = last.pre.obs[j].x /\ last.pre.obs[j].passed)
                 => obstacles[i].passed
        /\ (player.vx = CRASH_SPEED /\ ~CrashLanded) => RockHit
        /\ (~RockHit /\ ~CrashLanded) =>
              player.vx = Integrate(last.pre.p, last.pre.ref).vx

(* C28: a frame has left the player, slowed down by a rock, in the hitbox  *)
(* of that rock without a second hit                                       *)
C28_Witness ==
    /\ last.op = "frame"
    /\ ~last.calls.returned
    /\ player.invincibleTimer = 0 /\ player.flightTimer = 0
    /\ InPassedRock
    /\ ~RockHit
    /\ player.vx = last.pre.p.vx + 100

(* C29: every rock that the player has left behind (player.x at or beyond  *)
(* the end of its collision band, obs.x + 7) is marked passed, whether it  *)
(* was hit or cleared.                                                     *)
C29_ClearedRocksPassed ==
    \A i \in 1..Len(obstacles) :
        player.x >= obstacles[i].x + 7000 => obstacles[i].passed

(* C30: from the first run on the terrain is never empty and its samples   *)
(* are TERRAIN_SEGMENT_WIDTH apart; a frame appends at most one sample, at *)
(* the tail and one segment on, and removes at most one, the first, and    *)
(* only if its x is below player.x - 720; all other samples stay.          *)
C30_TerrainSamples ==
    /\ [](gameState # "MENU" =>
            /\ Len(terrain) > 0
            /\ \A i \in 1..(Len(terrain) - 1) :
                  terrain[i + 1].x - terrain[i].x = TERRAIN_SEGMENT_WIDTH)
    /\ [][frames' = frames + 1 =>
            \E a \in 0..1, r \in 0..1 :
                /\ Len(terrain') = Len(terrain) + a - r
                /\ a = 1 => terrain'[Len(terrain')].x
                               = terrain[Len(terrain)].x + TERRAIN_SEGMENT_WIDTH
                /\ r = 1 => terrain[1].x < player.x - GAME_WIDTH
                /\ \A i \in 1..(Len(terrain') - a) : terrain'[i] = terrain[i + r]]_vars

(* C30: frames have appended samples to the terrain of initGame and        *)
(* removed samples from its front                                          *)
C30_Witness ==
    /\ last.op = "frame"
    /\ gameState = "PLAYING"
    /\ terrain[1].x >= 2 * TERRAIN_SEGMENT_WIDTH
    /\ terrain[1].x < player.x - GAME_WIDTH + 2 * TERRAIN_SEGMENT_WIDTH
    /\ terrain[Len(terrain)].x > 2 * GAME_WIDTH + TERRAIN_SEGMENT_WIDTH

(* C31: the floor collision of every frame queries the ground at an x      *)
(* inside the terrain (first sample x <= player.x < last sample x), so the *)
(* query does not return the sentinel height 100000.                       *)
C31_PlayerOnTerrain ==
    last.op = "frame" =>
        /\ terrain[1].x <= player.x
        /\ player.x < terrain[Len(terrain)].x
        /\ getGroundY(terrain, player.x).y # NO_GROUND

(* C31: a frame has queried the ground after the cleanup has begun to      *)
(* remove the samples behind the player                                    *)
C31_Witness ==
    /\ last.op = "frame"
    /\ terrain[1].x > 0
    /\ player.x - terrain[1].x > GAME_WIDTH - 2 * TERRAIN_SEGMENT_WIDTH
    /\ terrain[Len(terrain)].x - player.x >= 2 * GAME_WIDTH - TERRAIN_SEGMENT_WIDTH
    /\ getGroundY(terrain, player.x).y < NO_GROUND

(* C32: after the terrain step of every frame, the first of a run          *)
(* included, the last terrain sample is at least two screen widths         *)
(* (2 * 720) ahead of the x the player had when the step was called.       *)
C32_TerrainTwoScreensAhead ==
    last.op = "frame" =>
        terrain[Len(terrain)].x >= last.pre.p.x + 2 * GAME_WIDTH

(* C33: every delivery takes exactly one fish out of the inventory: a      *)
(* frame marks no more cabins delivered than the inventory held when it    *)
(* began, and leaves the inventory at that count less one per cabin it     *)
(* marked, also when two undelivered cabins hold the player in their       *)
(* windows in the same frame or in consecutive frames.                     *)
C33_DeliveryConsumesOneFish ==
    last.op = "frame" =>
        /\ Cardinality(NewlyDelivered) <= last.pre.inv
        /\ fishInventory = last.pre.inv - Cardinality(NewlyDelivered)

(* C34: every inventory increment takes one cooked fish off the grill: a   *)
(* tap that raises the inventory finds, when it is processed, its slot     *)
(* cooking and perfect, and leaves that slot not cooking.  A slot that has *)
(* been reset as burnt, or holds a raw fish placed after the reset, gives  *)
(* nothing to a tap made on an earlier rendering of it.                    *)
C34_IncrementTakesCookedFish ==
    (last.op = "tap" /\ fishInventory > last.pre.inv) =>
        /\ last.pre.slots[last.idx].isCooking
        /\ last.pre.slots[last.idx].state = "perfect"
        /\ ~grillSlots[last.idx].isCooking

(* C35: the grill always has exactly 3 slots with ids "1", "2", "3" in     *)
(* that order; a slot that is not cooking has progress 0 and state raw; a  *)
(* cooking slot is perfect exactly when its progress is above 60, raw      *)
(* otherwise, and its progress is never above 100.  The same holds of the  *)
(* slots of the last committed render.                                     *)
C35_GrillSlotsWellFormed ==
    \A slots \in {grillSlots, view.grillSlots} :
        /\ Len(slots) = 3
        /\ <<slots[1].id, slots[2].id, slots[3].id>> = <<"1", "2", "3">>
        /\ \A i \in 1..3 :
              /\ slots[i].state \in {"raw", "perfect"}
              /\ ~slots[i].isCooking => slots[i].progress = 0 /\ slots[i].state = "raw"
              /\ slots[i].isCooking =>
                    /\ slots[i].state = "perfect" <=> slots[i].progress > 600
                    /\ slots[i].progress >= 0
                    /\ slots[i].progress <= 1000

(* C35: a cook tick has taken one slot to exactly 60, left raw, while       *)
(* another slot is perfect just below 100                                  *)
C35_Witness ==
    /\ last.op = "cook"
    /\ \E i \in 1..3 :
          /\ grillSlots[i].isCooking
          /\ grillSlots[i].progress = 600
          /\ grillSlots[i].state = "raw"
    /\ \E i \in 1..3 :
          /\ grillSlots[i].isCooking
          /\ grillSlots[i].progress > 1000 - 2 * CookStep
          /\ grillSlots[i].state = "perfect"

(* the cook tick that frees a slot at the latest: the one after 125 *)
LastCookTick == BurntAbove \div CookStep + 1

(* C36: while the session stays PLAYING and the cook timer keeps firing, a *)
(* cooking slot becomes not cooking again, by a tap or by the              *)
(* auto-discard, and no later than the 126th tick after the fish was       *)
(* placed: a cooking slot has had progress / 0.8 ticks, fewer than 126; a  *)
(* tick takes a cooking slot one step further or frees it; and the tick    *)
(* on a slot that has had 125 ticks frees it.                              *)
C36_CookingSlotIsFreed ==
    /\ \A i \in 1..NumSlots :
          grillSlots[i].isCooking ~> (~grillSlots[i].isCooking \/ gameState # "PLAYING")
    /\ [](\A i \in 1..NumSlots :
              grillSlots[i].isCooking =>
                  /\ grillSlots[i].progress % CookStep = 0
                  /\ grillSlots[i].progress \div CookStep < LastCookTick)
    /\ [][last'.op = "cook" =>
              \A i \in 1..NumSlots :
                  grillSlots[i].isCooking =>
                      /\ grillSlots[i]'.isCooking =>
                            grillSlots[i]'.progress = grillSlots[i].progress + CookStep
                      /\ grillSlots[i].progress \div CookStep = LastCookTick - 1 =>
                            ~grillSlots[i]'.isCooking]_vars

(* C36: the 126th tick after its placement has freed a fish that was       *)
(* picked up during the run and never tapped                               *)
C36_Witness ==
    /\ last.op = "cook"
    /\ budget = 0
    /\ \E i \in 2..NumSlots :
          /\ last.pre.slots[i].isCooking
          /\ last.pre.slots[i].progress = (LastCookTick - 1) * CookStep
          /\ ~grillSlots[i].isCooking

(* C37: at the start of every run, from the menu or from the game-over     *)
(* panel, the input-hold flag is false, so that a press held when the run  *)
(* before ended turns nothing in the new run until there is a new press.   *)
C37_RunStartsNotHolding ==
    last.op = "start" => ~isHolding

(***************************************************************************)
(* The avalanche's speed schedule.  The frame loop is taken up around the  *)
(* ends of the schedule's segments, with the invincibility timer off,      *)
(* about to run out or running.                                            *)
(***************************************************************************)
ScheduleFrames == 4

SegmentStart == <<0, 30000, 90000, 120000, 180000>>

SegmentOf(ms) ==
    IF ms < 30000 THEN 1
    ELSE IF ms < 90000 THEN 2
    ELSE IF ms < 120000 THEN 3
    ELSE IF ms < 180000 THEN 4
    ELSE 5

(* what a second adds to the target speed in segment k *)
RatePerSecond(k) ==
    AvalancheSpeed(SegmentStart[k] + 1000) - AvalancheSpeed(SegmentStart[k])

(* the value that segment k reaches at its end *)
SegmentEnd(k) == AvalancheSpeed(SegmentStart[k + 1] - 1000) + RatePerSecond(k)

ScheduleTimes ==
    {0} \cup {SegmentStart[k] - n * FrameMs : k \in 2..5, n \in 1..3}

ScheduleTimers == {0, 2, ScheduleFrames + 1}

InitSchedule ==
    \E w \in {WorldAfter("bare", IdleFrom)}, ms \in ScheduleTimes, timer \in ScheduleTimers :
        MidRun([w EXCEPT !.player = [@ EXCEPT !.invincibleTimer = timer]],
               IdleFrom, ms, 0, InitialSlots, 0, ScheduleFrames)

NextSchedule == gameLoop

SpecSchedule == InitSchedule /\ [][NextSchedule]_vars

(* C38, as stated: in the segment that a frame's elapsed time falls into,  *)
(* the rate is no greater than that of the segment before, and the segment *)
(* starts at the speed the segment before reaches at its end: 13.5 at      *)
(* 30 s, 25.5 at 90 s, 27.75 at 120 s, 29.55 at 180 s.  The avalanche      *)
(* moves by the schedule's speed, by exactly 2 less while the player is    *)
(* invincible, unless the clamp to the player holds it back.               *)
C38_ScheduleFlattens ==
    last.op = "frame" =>
        LET k == SegmentOf(elapsed)
        IN  /\ k > 1 => RatePerSecond(k) <= RatePerSecond(k - 1)
            /\ k > 1 => AvalancheSpeed(SegmentStart[k]) = SegmentEnd(k - 1)
            /\ <<AvalancheSpeed(30000), AvalancheSpeed(90000), AvalancheSpeed(120000),
                 AvalancheSpeed(180000)>> = <<13500, 25500, 27750, 29550>>
            /\ avalancheX < player.x + AVALANCHE_LEAD =>
                  avalancheX = last.pre.av + AvalancheSpeed(elapsed)
                                 - (IF player.invincibleTimer > 0 THEN 2000 ELSE 0)

(* C38, amended: from the third segment on the rate is no greater than    *)
(* that of the segment before (0.2, 0.075, 0.03, 0.01 per second), while   *)
(* the second segment, 0.2, is steeper than the first, 0.15.  Each segment *)
(* starts at the speed the segment before reaches at its end: 13.5 at      *)
(* 30 s, 25.5 at 90 s, 27.75 at 120 s, 29.55 at 180 s.  The avalanche      *)
(* moves by the schedule's speed, by exactly 2 less while the player is    *)
(* invincible, unless the clamp to the player holds it back.               *)
C38_ScheduleFlattensAfterSecond ==
    last.op = "frame" =>
        LET k == SegmentOf(elapsed)
        IN  /\ k > 2 => RatePerSecond(k) <= RatePerSecond(k - 1)
            /\ k = 2 => RatePerSecond(k) > RatePerSecond(k - 1)
            /\ k > 1 => AvalancheSpeed(SegmentStart[k]) = SegmentEnd(k - 1)
            /\ <<AvalancheSpeed(30000), AvalancheSpeed(90000), AvalancheSpeed(120000),
                 AvalancheSpeed(180000)>> = <<13500, 25500, 27750, 29550>>
            /\ avalancheX < player.x + AVALANCHE_LEAD =>
                  avalancheX = last.pre.av + AvalancheSpeed(elapsed)
                                 - (IF player.invincibleTimer > 0 THEN 2000 ELSE 0)

(* C38: the frame that enters the last segment, with the player invincible *)
(* and the avalanche behind the clamp                                      *)
C38_Witness ==
    /\ last.op = "frame"
    /\ SegmentOf(elapsed) = 5
    /\ SegmentOf(elapsed - FrameMs) = 4
    /\ player.invincibleTimer > 0
    /\ avalancheX < player.x + AVALANCHE_LEAD
    /\ avalancheX = last.pre.av + 29550 - 2000

====
